---- MODULE Spec2Model ----
(***************************************************************************)
(* A model of the TPG WebHub MTP driver (mtpDriver.js) and of the handlers *)
(* of the WebHub view that drive it (OpenDevice, downloadAudioFile,        *)
(* uploadSettingsFile, disconnectDevice).                                  *)
(*                                                                         *)
(* One USB recorder is attached.  The model follows the JavaScript event   *)
(* loop: every action is one macrotask (a button click, a timer of         *)
(* sleep(10), the completion of a transferOut, the completion of a         *)
(* transferIn) together with the synchronous code and promise reactions    *)
(* that run in it.  Reads (transferIn) are served in the order in which    *)
(* they were posted; timers of equal delay fire in the order in which they *)
(* were set.                                                               *)
(*                                                                         *)
(* Packets carry the fields the driver looks at: the container header      *)
(* (length, type, code, transaction id), the number of bytes of the bulk   *)
(* transfer, and the payload as 32-bit words (id arrays, Response          *)
(* parameters) or as the ObjectInfo fields (file name, size).  The bytes   *)
(* of an object are opaque: a continuation packet of a Data phase has      *)
(* only a size.                                                            *)
(***************************************************************************)
EXTENDS Integers, Sequences, FiniteSets, TLC

\* ---- program constants (mtpDriver.js) ----
MTP_PACKET_TYPE_COMMAND == 1
CONTAINER_TYPE_DATA == 2
CONTAINER_TYPE_RESPONSE == 3

MTP_OPEN_SESSION == 4098
CLOSE_SESSION == 4099
MTP_GET_STORAGE_IDS == 4100
MTP_GET_STORAGE_INFO == 4101
GET_OBJECT_HANDLES == 4103
GET_OBJECT_INFO == 4104
GET_OBJECT == 4105
MTP_DELETE_OBJECT == 4107
SEND_OBJECT_INFO == 4108
SEND_OBJECT == 4109

MTP_OK == 8193
SESSION_ALREADY_OPEN == 8222

MTP_PACKET_MAX_SIZE == 512
BLOB_WINDOW == 50000
MTP_CONTAINER_ARRAY_LEN == 12
FILE_NAME_START == 65
FIRST_DATA_PAYLOAD == 500
OBJECT_INFO_PREFIX == 52
DATE_FIELD_LEN == 4 + (11 + 16 + 6)
KEYWORDS_LEN == 4

TPG_COMMAND_FILE == "command.txt"
TPG_CONFIG_FILE == "config.txt"
TPG_AUDIO_FILE == "data.dat"

\* ---- bounds of the model ----
\* How many times in one run the device may deviate from "Data phase, then
\* one OK Response": a deviating reply, or the device being unplugged.
MaxFaults == 1
\* The number of button presses and deviating replies in a run, together.
MaxEvents == 2

\* ---- the environment: the recorder ----
\* Response codes the device may answer with besides OK (0x2002 General
\* Error stands for every code the driver does not know).
ErrorCodes == {8194}
\* The serial number found in config.txt.
DeviceSerial == "SN1"
\* The storages of the device (a small id: an operation that takes a Response
\* parameter for an array count creates that many objects).
DeviceStorageIDs == <<2>>
\* A recorder with a second storage.
TwoStorageIDs == <<2, 3>>
\* The objects the device may hold: handle, name, length in bytes, storage.
\* With 500 and 1012 bytes the Data phase of GetObject is a multiple of 512
\* bytes long and ends with a zero-length packet.
ConfigFile(n) == [h |-> 1, name |-> TPG_CONFIG_FILE, len |-> n, st |-> 2]
CommandFile == [h |-> 2, name |-> TPG_COMMAND_FILE, len |-> 30, st |-> 2]
AudioFile(n) == [h |-> 3, name |-> TPG_AUDIO_FILE, len |-> n, st |-> 2]
LogFile == [h |-> 5, name |-> "log.txt", len |-> 10, st |-> 3]
DeviceContents ==
  { <<ConfigFile(40)>>,
    <<ConfigFile(500), CommandFile, AudioFile(700)>>,
    <<ConfigFile(40), CommandFile, AudioFile(1012)>> }
\* The recorders that may be attached: one storage with any of the contents
\* above, or two storages, with objects whose Data phase takes three packets.
Recorders ==
  {[storages |-> DeviceStorageIDs, files |-> c] : c \in DeviceContents}
    \cup {[storages |-> TwoStorageIDs,
            files |-> <<ConfigFile(700), CommandFile, AudioFile(1100), LogFile>>]}
\* The lengths of the command text the user may have loaded for upload:
\* empty, one that fits the first write, one between 500 and 512 bytes, and
\* one that with the header fills two packets.
CommandTextLengths == {0, 30, 505, 1012}

Tasks == {"open", "audio", "upload", "eject"}
UITasks == {"audio", "upload", "eject"}

VARIABLES
  transactionID,       \* MTPDevice.transactionID
  sessionOpen,         \* MTPDevice.sessionOpen
  storageInfoObjects,  \* MTPDevice.storageInfoObjects
  stGen,               \* identity of the array storageInfoObjects holds
  SerialNumber,        \* MTPDevice.SerialNumber ("" for null)
  MTPDevices,          \* WebHub: module-level list of attached devices
  TpgDevices,          \* store.state.TpgDevices (serial numbers)
  storeQ,              \* store actions whose database promise is pending
  app,                 \* per handler: position and locals of the WebHub code
  op,                  \* per handler: the driver operation it awaits
  timers,              \* pending sleep(10) timers, in the order they were set
  reads,               \* posted transferIn requests, oldest first
  usbOut,              \* bulk-OUT transfers written and not yet taken by the device
  usbIn,               \* packets the device has sent and no read has taken
  lastTid,             \* transaction id of the last Command written (-1: none yet)
  lastResp,            \* transaction id of the last Response read (-1: none yet)
  overlapped,          \* a handler was started while another one was running
  devFiles,            \* device: the objects it holds
  devStorages,         \* device: its storage ids
  link,                \* "up"; "down": the device was unplugged; "told": the
                       \* page has handled the disconnect event
  claimed,             \* the page has the USB device open and its interface 0
                       \* claimed
  endpoints,           \* MTPDevice.endpointIn and endpointOut (0: not set)
  lastHandles,         \* per storage id: the handles of the last successful
                       \* GetObjectHandles
  devRecv,             \* device: the Data phase it is receiving
  audioCopy,           \* the device's record in the store: audioCopyBytes,
                       \* audioCopyTotalBytes, audioCopyProgress (in tenths
                       \* of a percent)
  commandText,         \* length of TpgDevice.config.commandText
  faults,              \* number of deviations of the recorder so far
  clicks,              \* number of button presses so far
  db,                  \* several recorders: the documents of the database
                       \* collection 'Devices'
  plugged,             \* several recorders: the USB devices attached to the host
  running,             \* several recorders: the OpenDevice and disconnectDevice
                       \* calls that are awaiting the driver
  clock,               \* several recorders: Date.now()
  calc                 \* codecs: the function applied, its input and its results

\* What the specification of one recorder leaves alone.
sideVars == << db, plugged, running, clock, calc >>

SideInit == db = <<>> /\ plugged = {} /\ running = <<>> /\ clock = 0 /\ calc = <<>>

vars == << transactionID, sessionOpen, storageInfoObjects, stGen, SerialNumber,
           MTPDevices, TpgDevices, storeQ, app, op, timers, reads, usbOut, usbIn,
           lastTid, lastResp, overlapped, devFiles, devStorages, link, claimed, endpoints,
           lastHandles, devRecv,
           audioCopy, commandText, faults, clicks , sideVars >>

\* ---- packets ----
Packet(type, code, tid, length, size, words, name, fsize) ==
  [type |-> type, code |-> code, tid |-> tid, length |-> length, size |-> size,
   words |-> words, name |-> name, fsize |-> fsize]

NoPacket == Packet(0, 0, 0, 0, 0, <<>>, "", 0)

\* Container type, code and transaction id of a packet.
Header(p) == [type |-> p.type, code |-> p.code, tid |-> p.tid]

\* A Response container with the given parameters.
Response(code, tid, params) ==
  Packet(CONTAINER_TYPE_RESPONSE, code, tid,
         MTP_CONTAINER_ARRAY_LEN + 4 * Len(params),
         MTP_CONTAINER_ARRAY_LEN + 4 * Len(params), params, "", 0)

\* A Data container holding an array of 32-bit values: count, then values.
ArrayData(code, tid, ids) ==
  Packet(CONTAINER_TYPE_DATA, code, tid,
         MTP_CONTAINER_ARRAY_LEN + 4 + 4 * Len(ids),
         MTP_CONTAINER_ARRAY_LEN + 4 + 4 * Len(ids), <<Len(ids)>> \o ids, "", 0)

\* A Data container holding a dataset with a name and a size (ObjectInfo,
\* StorageInfo): longer than FILE_NAME_START bytes.
DatasetData(code, tid, name, fsize) ==
  Packet(CONTAINER_TYPE_DATA, code, tid, 200, 200, <<>>, name, fsize)

\* A continuation packet of a Data phase: raw object bytes, no header.
RawData(size) == Packet(0, 0, 0, 0, size, <<>>, "", 0)

Min(a, b) == IF a < b THEN a ELSE b
CeilDiv(a, b) == IF a <= 0 THEN 0 ELSE (a + b - 1) \div b

\* The word at 0-based word index i of the payload, 0 when the packet is
\* shorter (undefined | 0 in JavaScript).
WordAt(p, i) == IF i + 1 <= Len(p.words) THEN p.words[i + 1] ELSE 0

\* ---- object identity ----
\* JavaScript compares objects by identity (Array.indexOf).  The array held
\* by storageInfoObjects is identified by stGen, a storage object by the
\* array it was created in and its position, an object list by the storage
\* object and the count ogen of replacements of that storage's list.
DeviceFields == [sio |-> storageInfoObjects, gen |-> stGen, so |-> sessionOpen]

NewStorage(id) ==
  [storageID |-> id, sinfo |-> 0, ogen |-> 0, objectInfoObjects |-> <<>>]

NewObject(id) == [fileID |-> id, fileName |-> "", filesize |-> 0]

Ref(g, ix, og, oix, fid) == [g |-> g, ix |-> ix, og |-> og, oix |-> oix, fid |-> fid]

NoRef == Ref(0, 0, 0, 0, 0)

\* device.storageInfoObjects.indexOf(storageObject); 0 stands for -1.
StorageIndexOf(D, ref) ==
  IF ref.g = D.gen /\ ref.ix >= 1 /\ ref.ix <= Len(D.sio) THEN ref.ix ELSE 0

\* device.storageInfoObjects[six].objectInfoObjects.indexOf(fileObject)
ObjectIndexOf(D, six, ref) ==
  IF /\ six >= 1 /\ six <= Len(D.sio)
     /\ ref.g = D.gen /\ ref.ix = six /\ ref.og = D.sio[six].ogen
     /\ ref.oix >= 1 /\ ref.oix <= Len(D.sio[six].objectInfoObjects)
  THEN ref.oix ELSE 0

\* ---- the reactions of the driver to the packets of a transaction ----
\* The result of a reaction: the value the promise settles with ("pending"
\* when the reaction leaves it unsettled), the device fields afterwards,
\* the packet taken for the Response and the value returned with success.
Result(ret, D, resp, val) ==
  [ret |-> ret, sio |-> D.sio, gen |-> D.gen, so |-> D.so, resp |-> resp, val |-> val]

\* A variant that takes the packets by arrival: the first as the Data
\* container, the second as the Response.
SelectPairByArrival(opcode, p0, p1) == [data |-> p0, resp |-> p1]

\* Which of the two packets is the Data container and which the Response.
SelectPair(opcode, p0, p1) ==
  IF p0.code = opcode THEN [data |-> p0, resp |-> p1]
                      ELSE [data |-> p1, resp |-> p0]

ResponseOK(resp) == resp.code = MTP_OK

\* A variant that accepts OK only.
OpenSessionOKOnly(resp) == resp.code = MTP_OK

OpenSessionOK(resp) == resp.code = MTP_OK \/ resp.code = SESSION_ALREADY_OPEN

H_openSession(o, p, D) ==
  IF OpenSessionOK(p)
  THEN Result("true", [D EXCEPT !.so = TRUE], p, 0)
  ELSE Result("false", [D EXCEPT !.so = FALSE], p, 0)

H_closeSession(o, p, D) ==
  IF ResponseOK(p)
  THEN Result("true", [D EXCEPT !.so = FALSE], p, 0)
  ELSE Result("false", D, p, 0)

\* A variant that adds the storages to the list the device already has.
H_getStorageIDS_Adding(o, p0, p1, D) ==
  LET s == SelectPair(MTP_GET_STORAGE_IDS, p0, p1)
      numberOfStorageIDS == WordAt(s.data, 0)
  IN IF ResponseOK(s.resp)
     THEN Result("true",
                 [D EXCEPT !.sio = D.sio \o [i \in 1..numberOfStorageIDS |->
                                               NewStorage(WordAt(s.data, i))],
                           !.gen = D.gen + 1],
                 s.resp, 0)
     ELSE Result("false", D, s.resp, 0)

\* A variant that empties the list before it looks at the Response.
H_getStorageIDS_Emptying(o, p0, p1, D) ==
  LET s == SelectPair(MTP_GET_STORAGE_IDS, p0, p1)
      numberOfStorageIDS == WordAt(s.data, 0)
  IN IF ResponseOK(s.resp)
     THEN Result("true",
                 [D EXCEPT !.sio = [i \in 1..numberOfStorageIDS |->
                                      NewStorage(WordAt(s.data, i))],
                           !.gen = D.gen + 1],
                 s.resp, 0)
     ELSE Result("false", [D EXCEPT !.sio = <<>>, !.gen = D.gen + 1], s.resp, 0)

H_getStorageIDS(o, p0, p1, D) ==
  LET s == SelectPair(MTP_GET_STORAGE_IDS, p0, p1)
      numberOfStorageIDS == WordAt(s.data, 0)
  IN IF ResponseOK(s.resp)
     THEN Result("true",
                 [D EXCEPT !.sio = [i \in 1..numberOfStorageIDS |->
                                      NewStorage(WordAt(s.data, i))],
                           !.gen = D.gen + 1],
                 s.resp, 0)
     ELSE Result("false", D, s.resp, 0)

\* storageObject.initDatasetFromMTPContainer writes into the object it was
\* given; the device's list shows it only if that object is still in it.
H_getStorageInfo(o, p0, p1, D) ==
  LET s == SelectPair(MTP_GET_STORAGE_INFO, p0, p1)
      ix == StorageIndexOf(D, o.sref)
  IN IF ResponseOK(s.resp)
     THEN Result("true",
                 IF ix = 0 THEN D ELSE [D EXCEPT !.sio[ix].sinfo = s.data.fsize],
                 s.resp, 0)
     ELSE Result("false", D, s.resp, 0)

\* storageIDIndex was computed when the operation was called (o.six).
H_getFileObjects(o, p0, p1, D) ==
  LET s == SelectPair(GET_OBJECT_HANDLES, p0, p1)
      numberOfObjectIDS == WordAt(s.data, 0)
  IN IF ResponseOK(s.resp) /\ o.six >= 1 /\ o.six <= Len(D.sio)
     THEN Result("true",
                 [D EXCEPT !.sio[o.six].objectInfoObjects =
                              [i \in 1..numberOfObjectIDS |-> NewObject(WordAt(s.data, i))],
                           !.sio[o.six].ogen = @ + 1],
                 s.resp, 0)
     ELSE Result("false", D, s.resp, 0)

\* The name is cut out of the packet at FILE_NAME_START; a packet that ends
\* before it, or an empty name, makes new Uint8Array(-1) throw.
H_getFileObjectInfo(o, p0, p1, D) ==
  LET s == SelectPair(GET_OBJECT_INFO, p0, p1)
  IN IF /\ ResponseOK(s.resp)
        /\ s.data.size >= FILE_NAME_START /\ s.data.name # ""
        /\ o.six >= 1 /\ o.six <= Len(D.sio)
        /\ o.oix >= 1 /\ o.oix <= Len(D.sio[o.six].objectInfoObjects)
     THEN Result("true",
                 [D EXCEPT !.sio[o.six].objectInfoObjects[o.oix].fileName = s.data.name,
                           !.sio[o.six].objectInfoObjects[o.oix].filesize = s.data.fsize],
                 s.resp, 0)
     ELSE Result("false", D, s.resp, 0)

H_deleteFile(o, p, D) ==
  IF ResponseOK(p) THEN Result("true", D, p, 0) ELSE Result("false", D, p, 0)

\* The catch of uploadFileInfo is attached to the promise it returns, not to
\* the reaction that throws: a Response that is not OK settles nothing.
\* newObjectID is byte 20 of the packet not taken for the Response.
H_uploadFileInfo(o, p0, p1, D) ==
  LET s == SelectPair(SEND_OBJECT_INFO, p0, p1)
  IN IF ResponseOK(s.resp)
     THEN Result("true", D, s.resp, WordAt(s.data, 2) % 256)
     ELSE Result("pending", D, s.resp, 0)

H_uploadFile(o, p0, p1, D) ==
  IF ResponseOK(p0) THEN Result("true", D, p0, 0) ELSE Result("false", D, p0, 0)

\* The packets an operation waits for before its reaction runs.
PacketsAwaited(name) ==
  IF name \in {"getStorageIDS", "getStorageInfo", "getFileObjects",
               "getFileObjectInfo", "uploadFileInfo", "uploadFile"}
  THEN 2 ELSE 1

\* The reaction of operation o to its packets, on device fields D.
Handle(o, pkts, D) ==
  CASE o.name = "openSession"       -> H_openSession(o, pkts[1], D)
    [] o.name = "closeSession"      -> H_closeSession(o, pkts[1], D)
    [] o.name = "getStorageIDS"     -> H_getStorageIDS(o, pkts[1], pkts[2], D)
    [] o.name = "getStorageInfo"    -> H_getStorageInfo(o, pkts[1], pkts[2], D)
    [] o.name = "getFileObjects"    -> H_getFileObjects(o, pkts[1], pkts[2], D)
    [] o.name = "getFileObjectInfo" -> H_getFileObjectInfo(o, pkts[1], pkts[2], D)
    [] o.name = "deleteFile"        -> H_deleteFile(o, pkts[1], D)
    [] o.name = "uploadFileInfo"    -> H_uploadFileInfo(o, pkts[1], pkts[2], D)
    [] o.name = "uploadFile"        -> H_uploadFile(o, pkts[1], pkts[2], D)
    [] OTHER                        -> Result("false", D, NoPacket, 0)

\* ---- driver operations in progress ----
\* name  the operation ("none": the handler awaits no operation)
\* no    counts the operations the handler has called; a read belongs to
\*       the operation that posted it
\* tid   the transaction id packed into the Command
\* send  where the writing side is: "pre" (sleep before transferOut), "xfer"
\*       (transferOut pending), "fail" (transferOut pending, the device will
\*       not take it), "post" (sleep after it), "sent" (all written)
\* wr    0 while the Command is written, then the number of the Data write
\* dtid  the transaction id packed into the Data container header
\* off   uploadFile: bytes of the file written so far
\* pkts  packets received so far; dl, fileLength, bufLen, left: the state of
\*       a download ("first", "loop", "last" read)
\* ret, val  what the returned promise settled with; handled: the reaction ran
\* resp  type, code and transaction id of the packet taken for the Response
\* got   the container types of the packets the reaction was given
\* lost  a transfer of the operation was rejected
\* short a download has received a packet of fewer than 512 bytes as data
\* alien bytes a download took for object bytes from packets that are not
\*       continuation packets of a Data phase
\* blobCount, blobs  downloadAudioFile: the packets counted and the chunks
\*       (blobNumber, length of fileBlob) added to the fileblobs collection
IdleOp ==
  [name |-> "none", no |-> 0, tid |-> 0, send |-> "sent", wr |-> 0, dtid |-> 0,
   off |-> 0, pkts |-> <<>>, dl |-> "none", fileLength |-> 0, bufLen |-> 0,
   left |-> 0, ret |-> "pending", val |-> 0, handled |-> FALSE,
   resp |-> Header(NoPacket), got |-> <<>>, sref |-> NoRef, six |-> 0, oix |-> 0,
   fid |-> 0, flen |-> 0, lost |-> FALSE, short |-> FALSE, alien |-> 0,
   blobCount |-> 0, blobs |-> <<>>]

\* What a handler asks the driver to do next.
Call(name, sref, six, oix, fid, flen, throws) ==
  [name |-> name, sref |-> sref, six |-> six, oix |-> oix, fid |-> fid,
   flen |-> flen, throws |-> throws]

NoCall == Call("none", NoRef, 0, 0, 0, 0, FALSE)

SimpleCall(name) == Call(name, NoRef, 0, 0, 0, 0, FALSE)

\* ---- the handlers of the WebHub view ----
\* pc    "idle", the operation awaited, "done" (returned) or "failed" (threw)
\* s1, s2  status1 and status2 of the wrappers getStorageIDS, getFileObjects
\* it    what is left of the array a for-of loop iterates
\* arr, i  OpenDevice: the storage ids of storageObjects and the loop index
\* sref, six  getFileObjects wrapper: storageObject and storageObjectIndex
\* stepFailed  an operation the handler awaited has returned false or was
\*       rejected
IdleApp ==
  [pc |-> "idle", s1 |-> "null", s2 |-> "null", it |-> <<>>, arr |-> <<>>,
   i |-> 0, sref |-> NoRef, six |-> 0, stepFailed |-> FALSE]

Go(a, pc, c) == [a |-> [a EXCEPT !.pc = pc], call |-> c, fin |-> "none"]

End(a, pc, fin) == [a |-> [a EXCEPT !.pc = pc], call |-> NoCall, fin |-> fin]

\* MTPDevices.findIndex(...) found the device (deviceIndex is not -1), and
\* MTPDevices[deviceIndex] is (still) the device.
Attached == Len(MTPDevices) > 0

\* The storage objects of the device's list, as a for-of loop meets them.
StorageRefs(D) ==
  [ix \in 1..Len(D.sio) |-> Ref(D.gen, ix, 0, 0, D.sio[ix].storageID)]

\* The file objects of storage six, as a for-of loop meets them.
ObjectRefs(D, six) ==
  [oix \in 1..Len(D.sio[six].objectInfoObjects) |->
     Ref(D.gen, six, D.sio[six].ogen, oix, D.sio[six].objectInfoObjects[oix].fileID)]

\* The least index of the set hits, 0 if it is empty: what find, filter()[0]
\* and indexOf return for the indices whose element passes their test.
FirstIndex(hits) ==
  IF hits = {} THEN 0 ELSE CHOOSE n \in hits : \A m \in hits : n <= m

\* The first object of storage six with the given name, 0 if none.
FileNamed(D, six, name) ==
  IF six < 1 \/ six > Len(D.sio) THEN 0
  ELSE FirstIndex({n \in 1..Len(D.sio[six].objectInfoObjects) :
                     D.sio[six].objectInfoObjects[n].fileName = name})

StorageWithID(D, id) ==
  FirstIndex({n \in 1..Len(D.sio) : D.sio[n].storageID = id})

\* downloadAudioFile, after the getFileObjects wrapper returned the list.
StartAudioDownload(t, a, D) ==
  LET n == FileNamed(D, a.six, TPG_AUDIO_FILE)
  IN IF ~Attached THEN End(a, "done", "none")
     ELSE IF n = 0
     THEN [a |-> [a EXCEPT !.pc = "done"],
           call |-> Call("downloadAudioFile", NoRef, 0, 0, 0, 0, TRUE), fin |-> "none"]
     ELSE Go(a, "downloadAudioFile",
             Call("downloadAudioFile", NoRef, 0, 0,
                  D.sio[a.six].objectInfoObjects[n].fileID, 0, FALSE))

\* OpenDevice: downloadSettingsFile and downloadFile up to the driver call.
StartSettingsDownload(t, a, D) ==
  LET n == FileNamed(D, 1, TPG_CONFIG_FILE)
  IN IF n = 0 THEN End(a, "failed", "none")
     ELSE Go(a, "downloadFile",
             Call("downloadFile", NoRef, 0, 0,
                  D.sio[1].objectInfoObjects[n].fileID, 0, FALSE))

RECURSIVE ObjectInfoLoop(_, _, _), FileObjectsDone(_, _, _, _), FileObjectsLoop(_, _, _),
          EnterFileObjects(_, _, _, _)

\* The wrapper getFileObjects returned res: "list", "undef" or "null".
FileObjectsDone(t, a, D, res) ==
  IF t = "open" THEN FileObjectsLoop(t, [a EXCEPT !.i = a.i + 1], D)
  ELSE IF res = "list" THEN StartAudioDownload(t, a, D)
  ELSE End(a, "failed", "none")

\* The for-of loop of the wrapper getFileObjects over the object list.
ObjectInfoLoop(t, a, D) ==
  IF a.it = <<>>
  THEN FileObjectsDone(t, a, D,
         IF a.six < 1 \/ a.six > Len(D.sio) THEN "null"
         ELSE IF a.s1 = "true" /\ a.s2 = "true" THEN "list" ELSE "undef")
  ELSE IF StorageIndexOf(D, a.sref) = 0
  THEN FileObjectsDone(t, a, D, "null")
  ELSE Go([a EXCEPT !.it = Tail(a.it)], "getFileObjectInfo",
          Call("getFileObjectInfo", a.sref, StorageIndexOf(D, a.sref),
               ObjectIndexOf(D, StorageIndexOf(D, a.sref), Head(a.it)),
               Head(a.it).fid, 0, FALSE))

\* The wrapper getFileObjects(device, storageID) up to the driver call.
EnterFileObjects(t, a, D, storageID) ==
  LET ix == StorageWithID(D, storageID)
      ref == Ref(D.gen, ix, 0, 0, storageID)
  IN IF (t # "open" /\ ~Attached) \/ ix = 0
     THEN FileObjectsDone(t, a, D, "null")
     ELSE Go([a EXCEPT !.s1 = "null", !.s2 = "null", !.sref = ref, !.six = ix],
             "getFileObjects",
             Call("getFileObjects", ref, ix, 0, storageID, 0, FALSE))

\* OpenDevice: the loop over storageObjects.
FileObjectsLoop(t, a, D) ==
  IF a.i <= Len(a.arr) THEN EnterFileObjects(t, a, D, a.arr[a.i])
  ELSE StartSettingsDownload(t, a, D)

\* The wrapper getStorageIDS returned to OpenDevice or downloadAudioFile.
StorageIDSDone(t, a, D) ==
  IF ~(a.s1 = "true" /\ a.s2 = "true") \/ Len(D.sio) = 0 THEN End(a, "failed", "none")
  ELSE IF t = "open"
  THEN FileObjectsLoop(t, [a EXCEPT !.arr = [n \in 1..Len(D.sio) |-> D.sio[n].storageID],
                                   !.i = 1], D)
  ELSE EnterFileObjects(t, a, D, D.sio[1].storageID)

\* The for-of loop of the wrapper getStorageIDS over the storage list.
StorageInfoLoop(t, a, D) ==
  IF a.it = <<>> THEN StorageIDSDone(t, a, D)
  ELSE Go([a EXCEPT !.it = Tail(a.it)], "getStorageInfo",
          Call("getStorageInfo", Head(a.it), 0, 0,
               Head(a.it).fid, 0, FALSE))

EnterStorageIDS(t, a) ==
  Go([a EXCEPT !.s1 = "null", !.s2 = "null"], "getStorageIDS", SimpleCall("getStorageIDS"))

\* uploadSettingsFile up to deleteFile.
StartUpload(t, a, D, len) ==
  LET n == FileNamed(D, 1, TPG_COMMAND_FILE)
  IN IF ~Attached \/ Len(D.sio) = 0 THEN End(a, "failed", "none")
     ELSE IF n = 0
     THEN [a |-> [a EXCEPT !.pc = "failed"],
           call |-> Call("deleteFile", NoRef, 0, 0, 0, 0, TRUE), fin |-> "none"]
     ELSE Go([a EXCEPT !.sref = Ref(D.gen, 1, 0, 0, D.sio[1].storageID)],
             "deleteFile",
             Call("deleteFile", NoRef, 0, 0, D.sio[1].objectInfoObjects[n].fileID, 0, FALSE))

\* downloadAudioFile (WebHub) up to its first driver call.
StartAudio(t, a) ==
  IF ~Attached THEN End(a, "done", "none") ELSE EnterStorageIDS(t, a)

\* disconnectDevice up to closeSession.
StartEject(t, a) ==
  IF ~Attached THEN End(a, "done", "none")
  ELSE Go(a, "closeSession", SimpleCall("closeSession"))

\* The operation a handler awaits was rejected (sendPacket threw): the
\* wrappers getStorageIDS and getFileObjects catch and return null, the
\* download of the audio file is inside a try, the rest is not caught.
Thrown(t, a, D) ==
  CASE a.pc \in {"getStorageIDS", "getStorageInfo"} -> End(a, "done", "none")
    [] a.pc \in {"getFileObjects", "getFileObjectInfo"} -> FileObjectsDone(t, a, D, "null")
    [] a.pc = "downloadAudioFile" -> End(a, "done", "none")
    [] OTHER -> End(a, "failed", "none")

\* The code a handler runs when the operation o it awaits has returned.
Continue(t, a, o, D, len) ==
  CASE o.ret = "error" -> Thrown(t, a, D)
    [] a.pc = "openSession" ->
         IF o.ret = "true" THEN EnterStorageIDS(t, a) ELSE End(a, "done", "none")
    [] a.pc = "getStorageIDS" ->
         StorageInfoLoop(t, [a EXCEPT !.s1 = o.ret, !.it = StorageRefs(D)], D)
    [] a.pc = "getStorageInfo" ->
         StorageInfoLoop(t, [a EXCEPT !.s2 = o.ret], D)
    [] a.pc = "getFileObjects" ->
         IF a.six > Len(D.sio) THEN FileObjectsDone(t, a, D, "null")
         ELSE ObjectInfoLoop(t, [a EXCEPT !.s1 = o.ret, !.it = ObjectRefs(D, a.six)], D)
    [] a.pc = "getFileObjectInfo" ->
         ObjectInfoLoop(t, [a EXCEPT !.s2 = o.ret], D)
    [] a.pc = "downloadFile" ->
         IF o.ret = "true" THEN End(a, "done", "publish") ELSE End(a, "failed", "none")
    [] a.pc = "downloadAudioFile" -> End(a, "done", "none")
    [] a.pc = "deleteFile" ->
         Go(a, "uploadFileInfo", Call("uploadFileInfo", a.sref, 0, 0, a.sref.fid, len, FALSE))
    [] a.pc = "uploadFileInfo" ->
         Go(a, "uploadFile", Call("uploadFile", NoRef, 0, 0, 0, len, FALSE))
    [] a.pc = "uploadFile" -> End(a, "done", "none")
    [] a.pc = "closeSession" -> End(a, "done", "eject")
    [] OTHER -> End(a, a.pc, "none")

\* ---- the first interface of the recorder ----
\* Its endpoints as the host lists them: the recorder's own interface, and
\* interfaces that lack the bulk-IN or the bulk-OUT endpoint.
BulkOut == [direction |-> "out", type |-> "bulk", endpointNumber |-> 2]
BulkIn == [direction |-> "in", type |-> "bulk", endpointNumber |-> 1]
InterruptIn == [direction |-> "in", type |-> "interrupt", endpointNumber |-> 3]
MTPInterface == <<BulkIn, BulkOut, InterruptIn>>
Interfaces == {MTPInterface, <<BulkOut, InterruptIn>>, <<BulkIn, InterruptIn>>}

\* The constructor's endpointIn and endpointOut.
NoEndpoints == [endpointIn |-> 0, endpointOut |-> 0]

\* The number of the last endpoint of the list with the direction and type
\* asked for; 0, the constructor's value, if there is none.
LastEndpoint(list, direction, type) ==
  LET hits == {n \in 1..Len(list) : list[n].direction = direction /\ list[n].type = type}
  IN IF hits = {} THEN 0
     ELSE list[CHOOSE n \in hits : \A m \in hits : m <= n].endpointNumber

getEndpoints(list) ==
  [endpointIn |-> LastEndpoint(list, "in", "bulk"),
   endpointOut |-> LastEndpoint(list, "out", "bulk")]

\* The host takes a transfer on an endpoint of the claimed interface of an
\* attached device, and rejects any other.
CanWrite == link = "up" /\ endpoints.endpointOut # 0
CanRead == link = "up" /\ endpoints.endpointIn # 0

\* ---- bulk-OUT ----
OpCode(name) ==
  CASE name = "openSession"       -> MTP_OPEN_SESSION
    [] name = "closeSession"      -> CLOSE_SESSION
    [] name = "getStorageIDS"     -> MTP_GET_STORAGE_IDS
    [] name = "getStorageInfo"    -> MTP_GET_STORAGE_INFO
    [] name = "getFileObjects"    -> GET_OBJECT_HANDLES
    [] name = "getFileObjectInfo" -> GET_OBJECT_INFO
    [] name = "downloadFile"      -> GET_OBJECT
    [] name = "downloadAudioFile" -> GET_OBJECT
    [] name = "deleteFile"        -> MTP_DELETE_OBJECT
    [] name = "uploadFileInfo"    -> SEND_OBJECT_INFO
    [] name = "uploadFile"        -> SEND_OBJECT
    [] OTHER                      -> 0

\* The number of parameters the Command of an operation is built with.
ParameterCount(name) ==
  CASE name \in {"openSession", "getStorageInfo", "getFileObjectInfo",
                 "downloadFile", "downloadAudioFile"} -> 1
    [] name \in {"deleteFile", "uploadFileInfo"} -> 2
    [] name = "getFileObjects" -> 3
    [] OTHER -> 0

\* A bulk-OUT transfer.  type 0: bytes without a container header.  optid
\* records the transaction id of the Command of the operation that wrote it.
OutPacket(type, code, tid, length, size, param, t, o) ==
  [type |-> type, code |-> code, tid |-> tid, length |-> length, size |-> size,
   param |-> param, optid |-> o.tid]

CommandPacket(t, o) ==
  OutPacket(MTP_PACKET_TYPE_COMMAND, OpCode(o.name), o.tid,
            MTP_CONTAINER_ARRAY_LEN + 4 * ParameterCount(o.name),
            MTP_CONTAINER_ARRAY_LEN + 4 * ParameterCount(o.name), o.fid, t, o)

\* The length of the ObjectInfo dataset uploadFileInfo sends for command.txt.
ObjectInfoLength ==
  OBJECT_INFO_PREFIX + 2 * 11 + DATE_FIELD_LEN + DATE_FIELD_LEN + KEYWORDS_LEN

\* uploadFile: the end of the slice of the file that starts at i.
SliceEnd(i, len) ==
  IF i + MTP_PACKET_MAX_SIZE > len THEN len
  ELSE IF i = 0 THEN FIRST_DATA_PAYLOAD ELSE i + MTP_PACKET_MAX_SIZE

\* The transfer operation o writes when its sleep before transferOut ends.
CurrentWrite(t, o) ==
  IF o.wr = 0 THEN CommandPacket(t, o)
  ELSE IF o.name = "uploadFileInfo"
  THEN OutPacket(CONTAINER_TYPE_DATA, SEND_OBJECT_INFO, o.dtid,
                 MTP_CONTAINER_ARRAY_LEN + ObjectInfoLength,
                 MTP_CONTAINER_ARRAY_LEN + ObjectInfoLength, 0, t, o)
  ELSE IF o.off = 0
  THEN OutPacket(CONTAINER_TYPE_DATA, SEND_OBJECT, o.dtid,
                 MTP_CONTAINER_ARRAY_LEN + o.flen,
                 MTP_CONTAINER_ARRAY_LEN + SliceEnd(0, o.flen), 0, t, o)
  ELSE OutPacket(0, 0, 0, 0, SliceEnd(o.off, o.flen) - o.off, 0, t, o)

\* The operation after sendPacket returned: the next write, or all written.
AfterSendPacket(o, tid) ==
  IF o.name = "uploadFileInfo" /\ o.wr = 0
  THEN [o EXCEPT !.wr = 1, !.dtid = tid, !.send = "pre"]
  ELSE IF o.name = "uploadFile" /\ o.wr = 0
  THEN IF 0 < o.flen
       THEN [o EXCEPT !.wr = 1, !.dtid = tid, !.off = 0, !.send = "pre"]
       ELSE [o EXCEPT !.dtid = tid, !.send = "sent"]
  ELSE IF o.name = "uploadFile" /\ SliceEnd(o.off, o.flen) < o.flen
  THEN [o EXCEPT !.wr = o.wr + 1, !.off = SliceEnd(o.off, o.flen), !.send = "pre"]
  ELSE [o EXCEPT !.send = "sent"]

\* ---- starting an operation ----
IsDownload(name) == name \in {"downloadFile", "downloadAudioFile"}

\* The transaction id the Command of a new operation carries.
CommandTransactionID(name, tid) ==
  IF name = "openSession" THEN tid ELSE tid + 1

\* The reads an operation posts when it is called.
ReadsPosted(name) == IF IsDownload(name) THEN 1 ELSE PacketsAwaited(name)

NewOp(c, no, tid) ==
  [IdleOp EXCEPT !.name = c.name, !.no = no, !.tid = tid,
                 !.send = IF c.name = "closeSession" THEN "sent" ELSE "pre",
                 !.dl = IF IsDownload(c.name) THEN "first" ELSE "none",
                 !.sref = c.sref, !.six = c.six, !.oix = c.oix, !.fid = c.fid,
                 !.flen = c.flen]

\* Handler t goes on as k says: it stops, or calls the driver operation
\* k.call up to the first await of that operation.  An operation called
\* with an undefined file object throws after posting its reads (deleteFile)
\* or after taking a transaction id as well (downloadAudioFile).
Proceed(t, k) ==
  LET c == k.call
      none == c.name = "none"
      no == IF none THEN op[t].no ELSE op[t].no + 1
      tid == IF none \/ (c.throws /\ c.name = "deleteFile") THEN transactionID
             ELSE CommandTransactionID(c.name, transactionID)
      o == NewOp(c, no, tid)
      started == ~none /\ ~c.throws
  IN /\ app' = [app EXCEPT ![t] =
                   [k.a EXCEPT !.stepFailed =
                      \/ k.a.stepFailed
                      \/ op[t].name # "none" /\ op[t].ret \in {"false", "error"}]]
     /\ transactionID' = tid
     /\ reads' = IF none THEN reads
                 ELSE reads \o [n \in 1..ReadsPosted(c.name) |-> [t |-> t, no |-> no]]
     /\ op' = [op EXCEPT ![t] = IF started THEN o ELSE [IdleOp EXCEPT !.no = no]]
     /\ timers' = IF started /\ c.name # "closeSession" THEN Append(timers, t) ELSE timers
     /\ usbOut' = IF started /\ c.name = "closeSession" /\ CanWrite
                  THEN Append(usbOut, CommandPacket(t, o)) ELSE usbOut
     /\ lastTid' = IF started /\ c.name = "closeSession" /\ CanWrite
                   THEN o.tid ELSE lastTid
     /\ SerialNumber' = IF k.fin = "publish" THEN DeviceSerial ELSE SerialNumber
     /\ MTPDevices' = CASE k.fin = "publish" -> Append(MTPDevices, DeviceSerial)
                        [] k.fin = "eject" /\ Len(MTPDevices) > 0 -> Tail(MTPDevices)
                        [] OTHER -> MTPDevices
     /\ storeQ' = CASE k.fin = "publish" /\ \A n \in 1..Len(TpgDevices) :
                                               TpgDevices[n] # DeviceSerial
                         -> Append(storeQ, [kind |-> "add", serial |-> DeviceSerial])
                    [] k.fin = "eject"
                         -> Append(storeQ, [kind |-> "delete", serial |-> DeviceSerial])
                    [] OTHER -> storeQ

\* ---- the recorder ----
\* The bulk-IN packets of a Data phase carrying an object of len bytes.
DataPhase(code, tid, len) ==
  LET total == MTP_CONTAINER_ARRAY_LEN + len
      full == total \div MTP_PACKET_MAX_SIZE
      rest == total % MTP_PACKET_MAX_SIZE
      first == Packet(CONTAINER_TYPE_DATA, code, tid, total,
                      Min(total, MTP_PACKET_MAX_SIZE), <<>>, "", 0)
  IN IF full = 0 THEN <<first>>
     ELSE <<first>> \o [n \in 1..(full - 1) |-> RawData(MTP_PACKET_MAX_SIZE)]
                    \o <<RawData(rest)>>

FileWithHandle(h) ==
  FirstIndex({n \in 1..Len(devFiles) : devFiles[n].h = h})

\* The handles of the objects on storage st, in the device's order.
HandlesOn(st) ==
  LET on == SelectSeq(devFiles, LAMBDA f : f.st = st)
  IN [m \in 1..Len(on) |-> on[m].h]

\* The Data phase the device answers Command e with (<<>>: none).
DeviceData(e) ==
  LET n == FileWithHandle(e.param)
  IN CASE e.code = MTP_GET_STORAGE_IDS -> <<ArrayData(e.code, e.tid, devStorages)>>
       [] e.code = MTP_GET_STORAGE_INFO -> <<DatasetData(e.code, e.tid, "", 1000)>>
       [] e.code = GET_OBJECT_HANDLES ->
            <<ArrayData(e.code, e.tid, HandlesOn(e.param))>>
       [] e.code = GET_OBJECT_INFO /\ n # 0 ->
            <<DatasetData(e.code, e.tid, devFiles[n].name, devFiles[n].len)>>
       [] e.code = GET_OBJECT /\ n # 0 -> DataPhase(e.code, e.tid, devFiles[n].len)
       [] OTHER -> <<>>

\* The device has what the Command asks for.
DeviceCanServe(e) ==
  e.code \in {GET_OBJECT_INFO, GET_OBJECT, MTP_DELETE_OBJECT} => FileWithHandle(e.param) # 0

\* The replies of the device to a transaction with Data phase data: what it
\* sends, and whether the reply deviates from "Data phase, one OK Response".
\* The host may see a one-packet Data phase and the Response in either order.
\* Deviations: an error Response with or without the Data phase, a Data
\* phase of two packets or more cut off by a short packet (100 bytes) and
\* an error Response, no packet at all, two Responses, a Response of another
\* transaction, a second Data-type container.
Replies(code, tid, data, params, canServe) ==
  LET ok == Response(MTP_OK, tid, params)
  IN (IF canServe
      THEN {[pk |-> data \o <<ok>>, fault |-> 0]}
           \cup (IF code = MTP_OPEN_SESSION
                 THEN {[pk |-> <<Response(SESSION_ALREADY_OPEN, tid, <<>>)>>, fault |-> 0]}
                 ELSE {})
           \cup (IF Len(data) = 1 /\ code # GET_OBJECT
                 THEN {[pk |-> <<ok>> \o data, fault |-> 0],
                       [pk |-> data \o data, fault |-> 1]}
                 ELSE {})
           \cup {[pk |-> data \o <<Response(c, tid, <<>>)>>, fault |-> 1] : c \in ErrorCodes}
           \cup (IF code = GET_OBJECT /\ Len(data) >= 2
                 THEN {[pk |-> <<data[1], RawData(100)>> \o <<Response(c, tid, <<>>)>>,
                        fault |-> 1] : c \in ErrorCodes}
                 ELSE {})
           \cup {[pk |-> <<>>, fault |-> 1],
                 [pk |-> <<ok, ok>>, fault |-> 1],
                 [pk |-> data \o <<Response(MTP_OK, tid + 1, params)>>, fault |-> 1],
                 [pk |-> data \o <<[ok EXCEPT !.type = CONTAINER_TYPE_DATA]>>, fault |-> 1]}
      ELSE {})
     \cup (IF data # <<>> \/ ~canServe
           THEN {[pk |-> <<Response(c, tid, <<>>)>>, fault |-> IF canServe THEN 1 ELSE 0] :
                   c \in ErrorCodes}
           ELSE {})

\* info: the handle the device gave to the object of a SendObjectInfo it
\* answered with OK; it holds that ObjectInfo for a SendObject that comes as
\* the next Command (0: it holds none).
NoReceive == [active |-> FALSE, code |-> 0, tid |-> 0, left |-> 0, info |-> 0]

\* The handles the device may give to a new object: one that fits a byte,
\* one that does not.
NewHandles == {4, 260}

\* The parameters of the device's Response: SendObjectInfo answers with the
\* storage, the parent and the handle h of the new object.
ResponseParams(code, h) ==
  IF code = SEND_OBJECT_INFO THEN <<devStorages[1], 0, h>> ELSE <<>>

\* The record downloadSettingsFile makes for a device.
NewRecord ==
  [audioCopyBytes |-> 0, audioCopyTotalBytes |-> 0, audioCopyProgress |-> 0]

\* ---- the state after the page is created ----
Init ==
  /\ transactionID = 0
  /\ sessionOpen = FALSE
  /\ storageInfoObjects = <<>>
  /\ stGen = 0
  /\ SerialNumber = ""
  /\ MTPDevices = <<>>
  /\ TpgDevices = <<>>
  /\ storeQ = <<>>
  /\ app = [t \in Tasks |-> IdleApp]
  /\ op = [t \in Tasks |-> IdleOp]
  /\ timers = <<>>
  /\ reads = <<>>
  /\ usbOut = <<>>
  /\ usbIn = <<>>
  /\ lastTid = -1
  /\ lastResp = -1
  /\ overlapped = FALSE
  /\ \E r \in Recorders : devFiles = r.files /\ devStorages = r.storages
  /\ link = "up"
  /\ claimed = FALSE
  /\ endpoints = NoEndpoints
  /\ lastHandles = << >>
  /\ devRecv = NoReceive
  /\ audioCopy = NewRecord
  /\ commandText \in CommandTextLengths
  /\ faults = 0
  /\ clicks = 0
  /\ SideInit

devVars == << devFiles, devRecv, faults, usbIn >>
uiVars == << commandText, clicks, overlapped >>
wireVars == << usbOut, lastTid >>
driverVars == << sessionOpen, storageInfoObjects, stGen, lastHandles, audioCopy >>
plugVars == << devStorages, link, claimed, endpoints >>

\* ---- handlers start ----
\* The host announces the recorder (connect event, or getDevices at page
\* creation): OpenDevice opens it, selects the configuration, claims the
\* interface, finds the endpoints and calls openSession.
Connect ==
  /\ app["open"].pc = "idle"
  /\ \E k \in {Go(app["open"], "openSession",
                  Call("openSession", NoRef, 0, 0, 1, 0, FALSE))} : Proceed("open", k)
  /\ claimed' = TRUE
  /\ \E list \in Interfaces :
       /\ endpoints' = getEndpoints(list)
       /\ IF list = MTPInterface THEN faults' = faults
          ELSE /\ faults < MaxFaults /\ clicks + faults < MaxEvents
               /\ faults' = faults + 1
  /\ UNCHANGED << sideVars, driverVars, TpgDevices, devFiles, devRecv, usbIn, uiVars,
                  lastResp, devStorages, link >>

\* The user presses a button of the device's card: Upload Audio
\* (downloadAudioFile), Update Settings (uploadSettingsFile), Eject
\* (disconnectDevice).  The card is there while the store has the record; a
\* handler that has returned or thrown can be started again.
Click(t) ==
  /\ t \in UITasks
  /\ app[t].pc \in {"idle", "done", "failed"}
  /\ clicks + faults < MaxEvents
  /\ clicks' = clicks + 1
  /\ overlapped' = (overlapped \/ \E u \in Tasks : app[u].pc \notin {"idle", "done", "failed"})
  /\ \E n \in 1..Len(TpgDevices) : TpgDevices[n] = DeviceSerial
  /\ \E k \in {CASE t = "audio" -> StartAudio(t, IdleApp)
                 [] t = "upload" -> StartUpload(t, IdleApp, DeviceFields, commandText)
                 [] OTHER -> StartEject(t, IdleApp)} : Proceed(t, k)
  /\ UNCHANGED << sideVars, driverVars, TpgDevices, devVars, commandText, lastResp, plugVars >>

\* The operation a handler awaited has settled and all its writes are done,
\* or it was rejected: the handler goes on.
Resume(t) ==
  /\ op[t].name # "none"
  /\ op[t].send = "sent"
  /\ op[t].ret \in {"true", "false", "error"}
  /\ \E k \in {Continue(t, app[t], op[t], DeviceFields, commandText)} : Proceed(t, k)
  /\ UNCHANGED << sideVars, driverVars, TpgDevices, devVars, uiVars, lastResp, plugVars >>

\* ---- sendPacket ----
\* The sleep(10) before transferOut ends: the packet is written (if the
\* device is there).
TimerWrite ==
  /\ timers # <<>>
  /\ LET t == Head(timers)
     IN /\ op[t].send = "pre"
        /\ usbOut' = IF CanWrite THEN Append(usbOut, CurrentWrite(t, op[t])) ELSE usbOut
        /\ lastTid' = IF op[t].wr = 0 /\ CanWrite THEN op[t].tid ELSE lastTid
        /\ op' = [op EXCEPT ![t].send = IF CanWrite THEN "xfer" ELSE "fail"]
  /\ timers' = Tail(timers)
  /\ UNCHANGED << sideVars, driverVars, transactionID, SerialNumber, MTPDevices, TpgDevices,
                  storeQ, app, reads, devVars, uiVars, lastResp, plugVars >>

\* transferOut completes: the sleep(10) after it starts.  A transfer the
\* device did not take is rejected: sendPacket throws and the operation is
\* rejected.
TransferOutDone(t) ==
  /\ op[t].send \in {"xfer", "fail"}
  /\ op' = [op EXCEPT ![t] = IF op[t].send = "xfer" THEN [@ EXCEPT !.send = "post"]
                             ELSE [@ EXCEPT !.send = "sent", !.ret = "error",
                                            !.lost = TRUE]]
  /\ timers' = IF op[t].send = "xfer" THEN Append(timers, t) ELSE timers
  /\ UNCHANGED << sideVars, driverVars, transactionID, SerialNumber, MTPDevices, TpgDevices,
                  storeQ, app, reads, wireVars, devVars, uiVars, lastResp, plugVars >>

\* The sleep(10) after transferOut ends: sendPacket returns, the operation
\* builds its next packet (with the transaction id the device record holds
\* now) or has written everything.
TimerReturn ==
  /\ timers # <<>>
  /\ LET t == Head(timers)
         o == AfterSendPacket(op[t], transactionID)
     IN /\ op[t].send = "post"
        /\ op' = [op EXCEPT ![t] = o]
        /\ timers' = IF o.send = "pre" THEN Append(Tail(timers), t) ELSE Tail(timers)
  /\ UNCHANGED << sideVars, driverVars, transactionID, SerialNumber, MTPDevices, TpgDevices,
                  storeQ, app, reads, wireVars, devVars, uiVars, lastResp, plugVars >>

\* ---- the recorder processes the next bulk-OUT transfer ----
DeviceStep ==
  /\ link = "up"
  /\ usbOut # <<>>
  /\ usbOut' = Tail(usbOut)
  /\ LET e == Head(usbOut)
         dataOut == e.code \in {SEND_OBJECT_INFO, SEND_OBJECT}
         left == IF e.type = CONTAINER_TYPE_DATA THEN e.length - e.size
                 ELSE devRecv.left - e.size
     IN IF e.type = MTP_PACKET_TYPE_COMMAND /\ dataOut
        THEN /\ devRecv' = [active |-> TRUE, code |-> e.code, tid |-> e.tid, left |-> 0,
                             info |-> IF e.code = SEND_OBJECT THEN devRecv.info ELSE 0]
             /\ UNCHANGED << usbIn, faults, devFiles >>
        ELSE IF e.type = MTP_PACKET_TYPE_COMMAND
        THEN \E r \in Replies(e.code, e.tid, DeviceData(e), <<>>, DeviceCanServe(e)) :
               /\ r.fault = 0 \/ (faults < MaxFaults /\ clicks + faults < MaxEvents)
               /\ faults' = faults + r.fault
               /\ usbIn' = usbIn \o r.pk
               /\ devFiles' = IF /\ e.code = MTP_DELETE_OBJECT
                                 /\ r.pk # <<>> /\ r.pk[1].code = MTP_OK
                              THEN SelectSeq(devFiles, LAMBDA f : f.h # e.param)
                              ELSE devFiles
               /\ devRecv' = [devRecv EXCEPT !.info = 0]
        ELSE IF devRecv.active /\ left <= 0
        THEN \E h \in NewHandles :
             \E r \in Replies(devRecv.code, devRecv.tid, <<>>,
                              ResponseParams(devRecv.code, h), TRUE) :
               /\ r.fault = 0 \/ (faults < MaxFaults /\ clicks + faults < MaxEvents)
               /\ faults' = faults + r.fault
               /\ usbIn' = usbIn \o r.pk
               /\ devRecv' = [NoReceive EXCEPT
                                !.info = IF /\ devRecv.code = SEND_OBJECT_INFO
                                            /\ r.pk # <<>>
                                            /\ r.pk[1].code = MTP_OK
                                         THEN h ELSE 0]
               /\ UNCHANGED devFiles
        ELSE /\ devRecv' = IF devRecv.active THEN [devRecv EXCEPT !.left = left] ELSE devRecv
             /\ UNCHANGED << usbIn, faults, devFiles >>
  /\ UNCHANGED << sideVars, driverVars, transactionID, SerialNumber, MTPDevices, TpgDevices,
                  storeQ, app, op, timers, reads, lastTid, lastResp, uiVars, plugVars >>

\* ---- the recorder is unplugged ----
\* What was in flight is lost; every transfer pending or started from now on
\* is rejected.
Unplug ==
  /\ link = "up"
  /\ app["open"].pc # "idle"
  /\ faults < MaxFaults /\ clicks + faults < MaxEvents
  /\ faults' = faults + 1
  /\ link' = "down"
  /\ claimed' = FALSE
  /\ usbIn' = <<>>
  /\ usbOut' = <<>>
  /\ devRecv' = NoReceive
  /\ op' = [t \in Tasks |->
             IF /\ op[t].send = "xfer"
                /\ \E n \in 1..Len(usbOut) : usbOut[n].optid = op[t].tid
             THEN [op[t] EXCEPT !.send = "fail"] ELSE op[t]]
  /\ UNCHANGED << sideVars, driverVars, transactionID, SerialNumber, MTPDevices, TpgDevices,
                  storeQ, app, timers, reads, lastTid, lastResp, uiVars,
                  devFiles, devStorages, endpoints >>

\* The page handles the disconnect event (disconnect): a published device
\* is taken off MTPDevices and deleteDeviceBySerialNumber is dispatched,
\* which throws when the store has no record of it.
DisconnectEvent ==
  /\ link = "down"
  /\ link' = "told"
  /\ MTPDevices' = IF Attached THEN Tail(MTPDevices) ELSE MTPDevices
  /\ storeQ' = IF Attached /\ \E n \in 1..Len(TpgDevices) : TpgDevices[n] = SerialNumber
               THEN Append(storeQ, [kind |-> "delete", serial |-> SerialNumber])
               ELSE storeQ
  /\ UNCHANGED << sideVars, driverVars, transactionID, SerialNumber, TpgDevices, app, op, timers,
                  reads, wireVars, devVars, uiVars, lastResp, devStorages, claimed,
                  endpoints >>

\* ---- transferIn completes ----
\* downloadAudioFile adds a chunk to the fileblobs collection and starts a
\* new objectBuffer.
Flush(o, blobNumber) ==
  [o EXCEPT !.blobs = Append(o.blobs, [blobNumber |-> blobNumber, len |-> o.bufLen]),
            !.bufLen = 0]

\* The data loop of a download is over: downloadAudioFile saves the last
\* blob; both go on to the read after the loop.
LoopDone(o) ==
  IF o.name = "downloadAudioFile" THEN [Flush(o, o.blobCount) EXCEPT !.dl = "last"]
  ELSE [o EXCEPT !.dl = "last"]

\* LoopPacket without the chunk every BLOB_WINDOW-th packet.
LoopPacket_Unchunked(o, p) ==
  [o EXCEPT !.bufLen = o.bufLen + p.size, !.left = o.left - 1,
            !.short = o.short \/ p.size < MTP_PACKET_MAX_SIZE,
            !.alien = o.alien + (IF p.type = 0 THEN 0 ELSE p.size),
            !.blobCount = o.blobCount + 1]

\* A packet read in the data loop: its bytes go to objectBuffer; in
\* downloadAudioFile every BLOB_WINDOW-th packet makes a chunk.
LoopPacket(o, p) ==
  LET q == [o EXCEPT !.bufLen = o.bufLen + p.size, !.left = o.left - 1,
                     !.short = o.short \/ p.size < MTP_PACKET_MAX_SIZE,
                     !.alien = o.alien + (IF p.type = 0 THEN 0 ELSE p.size),
                     !.blobCount = o.blobCount + 1]
  IN IF o.name = "downloadAudioFile" /\ q.blobCount % BLOB_WINDOW = 0
     THEN Flush(q, q.blobCount) ELSE q

\* A download reads on: the first packet gives the length, then
\* numberOfPacketsToBeReceived reads, then one more.
DownloadStep(o, p) ==
  LET fileLength == p.length - MTP_CONTAINER_ARRAY_LEN
      bufLen == IF p.size > MTP_CONTAINER_ARRAY_LEN
                THEN p.size - MTP_CONTAINER_ARRAY_LEN ELSE 0
      numberOfPacketsToBeReceived == CeilDiv(fileLength - bufLen, MTP_PACKET_MAX_SIZE)
      first == [o EXCEPT !.fileLength = fileLength, !.bufLen = bufLen,
                         !.left = numberOfPacketsToBeReceived,
                         !.short = p.size < MTP_PACKET_MAX_SIZE, !.dl = "loop"]
  IN CASE o.dl = "first" /\ p.code = GET_OBJECT ->
            IF numberOfPacketsToBeReceived > 0 THEN first ELSE LoopDone(first)
       [] o.dl = "first" ->
            [o EXCEPT !.dl = "none", !.ret = "false", !.handled = TRUE,
                      !.resp = Header(p)]
       [] o.dl = "loop" ->
            IF o.left > 1 THEN LoopPacket(o, p) ELSE LoopDone(LoopPacket(o, p))
       [] OTHER ->
            [(IF o.name = "downloadAudioFile" THEN Flush(o, o.blobCount + 1) ELSE o)
               EXCEPT !.dl = "none", !.ret = "true", !.handled = TRUE, !.resp = Header(p)]

\* i of n as a percentage with one decimal (toFixed(1)), in tenths.
Tenths(i, n) == (2000 * i + n) \div (2 * n)

\* The device record after downloadAudioFile o has read packet p: the first
\* packet sets audioCopyTotalBytes, every chunk adds its length to
\* audioCopyBytes, a chunk made in the loop sets the progress to i of
\* numberOfPacketsToBeReceived, the read after the loop sets it to 100.
Progress(rec, o, p) ==
  LET q == DownloadStep(o, p)
      was == Len(o.blobs)
      now == Len(q.blobs)
      added == (IF now > was THEN q.blobs[was + 1].len ELSE 0)
                 + (IF now > was + 1 THEN q.blobs[was + 2].len ELSE 0)
      inLoop == o.dl = "loop" /\ (o.blobCount + 1) % BLOB_WINDOW = 0
  IN [audioCopyBytes |-> rec.audioCopyBytes + added,
      audioCopyTotalBytes |-> IF o.dl = "first" /\ p.code = GET_OBJECT
                              THEN q.fileLength ELSE rec.audioCopyTotalBytes,
      audioCopyProgress |-> IF q.ret = "true" THEN 1000
                            ELSE IF inLoop THEN Tenths(o.blobCount, o.blobCount + o.left)
                            ELSE rec.audioCopyProgress]

\* The handles a successful getFileObjects was given.
HandlesReturned(o, pk) ==
  LET d == SelectPair(GET_OBJECT_HANDLES, pk[1], pk[2]).data
  IN [i \in 1..WordAt(d, 0) |-> WordAt(d, i)]

\* handles recorded as the last result for storage id sid.
Recorded(sid, handles) ==
  [id \in (DOMAIN lastHandles) \cup {sid} |->
     IF id = sid THEN handles ELSE lastHandles[id]]

\* The oldest posted read takes the oldest packet.  A read of an operation
\* that is gone swallows it.  When the packets an operation awaits are
\* complete, its reaction runs.
Deliver ==
  /\ reads # <<>>
  /\ usbIn # <<>>
  /\ CanRead
  /\ usbIn' = Tail(usbIn)
  /\ lastResp' = IF Head(usbIn).type = CONTAINER_TYPE_RESPONSE THEN Head(usbIn).tid
                  ELSE lastResp
  /\ LET r == Head(reads)
         p == Head(usbIn)
         o == op[r.t]
         live == o.name # "none" /\ o.no = r.no
         pk == Append(o.pkts, p)
         h == Handle(o, pk, DeviceFields)
     IN IF ~live
        THEN /\ reads' = Tail(reads)
             /\ UNCHANGED << op, driverVars >>
        ELSE IF IsDownload(o.name)
        THEN /\ op' = [op EXCEPT ![r.t] = DownloadStep(o, p)]
             /\ reads' = IF DownloadStep(o, p).dl = "none" THEN Tail(reads)
                         ELSE Append(Tail(reads), r)
             /\ audioCopy' = IF o.name = "downloadAudioFile"
                             THEN Progress(audioCopy, o, p) ELSE audioCopy
             /\ UNCHANGED << sessionOpen, storageInfoObjects, stGen, lastHandles >>
        ELSE IF Len(pk) < PacketsAwaited(o.name)
        THEN /\ op' = [op EXCEPT ![r.t].pkts = pk]
             /\ reads' = Tail(reads)
             /\ UNCHANGED driverVars
        ELSE /\ op' = [op EXCEPT ![r.t] = [o EXCEPT !.pkts = <<>>, !.ret = h.ret,
                                                   !.val = h.val, !.handled = TRUE,
                                                   !.resp = Header(h.resp),
                                                   !.got = IF Len(pk) = 1 THEN <<pk[1].type>>
                                                          ELSE <<pk[1].type, pk[2].type>>]]
             /\ reads' = Tail(reads)
             /\ storageInfoObjects' = h.sio
             /\ stGen' = h.gen
             /\ sessionOpen' = h.so
             /\ audioCopy' = audioCopy
             /\ lastHandles' = IF o.name = "getFileObjects" /\ h.ret = "true"
                               THEN Recorded(o.fid, HandlesReturned(o, pk))
                               ELSE lastHandles
  /\ UNCHANGED << sideVars, transactionID, SerialNumber, MTPDevices, TpgDevices, storeQ, app,
                  timers, wireVars, devFiles, devRecv, faults, uiVars, plugVars >>

\* The operation after one of its reads was rejected.  openSession and
\* closeSession catch the rejection and resolve false, and so do the
\* downloads for the reads of their loop and the read after it; a read
\* posted by getPacket has no rejection handler, its promise stays pending.
ReadRejected(o) ==
  IF \/ o.name \in {"openSession", "closeSession"}
     \/ IsDownload(o.name) /\ o.dl \in {"loop", "last"}
  THEN [o EXCEPT !.lost = TRUE, !.dl = "none", !.pkts = <<>>,
                 !.ret = IF o.ret = "pending" THEN "false" ELSE o.ret]
  ELSE [o EXCEPT !.lost = TRUE, !.pkts = <<>>]

\* The device is not there, or endpointIn is none of its endpoints: the
\* oldest posted read is rejected.
ReadFails ==
  /\ ~CanRead
  /\ reads # <<>>
  /\ reads' = Tail(reads)
  /\ LET r == Head(reads)
         o == op[r.t]
     IN op' = IF o.name # "none" /\ o.no = r.no
              THEN [op EXCEPT ![r.t] = ReadRejected(o)] ELSE op
  /\ UNCHANGED << sideVars, driverVars, transactionID, SerialNumber, MTPDevices, TpgDevices,
                  storeQ, app, timers, wireVars, devVars, uiVars, lastResp, plugVars >>

\* ---- the store ----
\* The database promise of a dispatched action resolves: the mutation is
\* committed.
StoreCommit ==
  /\ storeQ # <<>>
  /\ storeQ' = Tail(storeQ)
  /\ TpgDevices' = IF Head(storeQ).kind = "add"
                   THEN Append(TpgDevices, Head(storeQ).serial)
                   ELSE SelectSeq(TpgDevices, LAMBDA d : d # Head(storeQ).serial)
  /\ UNCHANGED << sideVars, driverVars, transactionID, SerialNumber, MTPDevices, app, op, timers,
                  reads, wireVars, devVars, uiVars, lastResp, plugVars >>

Next ==
  \/ Connect
  \/ \E t \in UITasks : Click(t)
  \/ \E t \in Tasks : Resume(t)
  \/ TimerWrite
  \/ \E t \in Tasks : TransferOutDone(t)
  \/ TimerReturn
  \/ DeviceStep
  \/ Unplug
  \/ DisconnectEvent
  \/ Deliver
  \/ ReadFails
  \/ StoreCommit

Spec == Init /\ [][Next]_vars

\* ---- what the properties observe ----
\* A transfer is written to bulk-OUT in this step; the transfer written.
Wrote == Len(usbOut') = Len(usbOut) + 1
Written == usbOut'[Len(usbOut')]
WroteCommand == Wrote /\ Written.type = MTP_PACKET_TYPE_COMMAND

\* The operation of handler t has written its Command and has not settled.
InProgress(t) ==
  /\ op[t].name # "none"
  /\ ~(op[t].wr = 0 /\ op[t].send = "pre")
  /\ op[t].ret = "pending"

\* The reaction of the operation of handler t runs in this step, on the
\* packets Reacted(t).
Completed(t) == op[t].name # "none" /\ ~op[t].handled /\ op'[t].handled
Reacted(t) == Append(op[t].pkts, Head(usbIn))

DataInOps == {"getStorageIDS", "getStorageInfo", "getFileObjects", "getFileObjectInfo"}
CheckedOps == DataInOps \cup {"deleteFile", "uploadFileInfo", "uploadFile"}

\* p is the Data container, the Response container, of o's transaction.
IsDataOf(o, p) ==
  p.type = CONTAINER_TYPE_DATA /\ p.code = OpCode(o.name) /\ p.tid = o.tid
IsResponseOf(o, p) == p.type = CONTAINER_TYPE_RESPONSE /\ p.tid = o.tid

\* ---- C1 ----
\* C1: at most one transaction is in progress on the device at any time: no
\* two operations have both written their Command and not yet settled.
C1_OneTransactionAtATime == Cardinality({t \in Tasks : InProgress(t)}) <= 1

\* ---- C2 ----
\* C2: with handlers started one after another and a device that answers
\* every transaction with its Data phase and one Response, when a Command is
\* written the Response of the Command before it has been read from bulk-IN
\* and no packet is left unread there.
C2_ResponseReadBeforeNextCommand ==
  [][(WroteCommand /\ lastTid >= 0 /\ faults = 0 /\ ~overlapped')
       => (lastResp = lastTid /\ usbIn = <<>>)]_vars

\* ---- C3 ----
\* C3: the first Command written is OpenSession with transaction id 0, and
\* every Command written carries an id greater than that of every Command
\* written before it.
C3_CommandIdsIncrease ==
  [][WroteCommand
       => /\ Written.tid > lastTid
          /\ lastTid = -1 => (Written.code = MTP_OPEN_SESSION /\ Written.tid = 0)]_vars

\* ---- C4 ----
\* C4: every Data container written carries the transaction id of the
\* Command of the operation that writes it.
C4_DataCarriesCommandId ==
  [][(Wrote /\ Written.type = CONTAINER_TYPE_DATA) => Written.tid = Written.optid]_vars

\* ---- C5 ----
\* C5: an operation returns success only if the packet it took for the
\* Response has container type 3 and the transaction id of its Command.
C5_SuccessNeedsMatchingResponse ==
  \A t \in Tasks :
    (op[t].name \in CheckedOps /\ op[t].handled /\ op[t].ret = "true")
      => (op[t].resp.type = CONTAINER_TYPE_RESPONSE /\ op[t].resp.tid = op[t].tid)

\* ---- C6 ----
\* C6: when a data-in operation is given the Data container and the Response
\* container of its transaction, the value it returns and the device state
\* it leaves are those it would produce with the two packets in the other
\* order.
C6_OrderIndependent ==
  [][\A t \in Tasks :
       (/\ Completed(t)
        /\ op[t].name \in DataInOps
        /\ Len(Reacted(t)) = 2
        /\ \/ IsDataOf(op[t], Reacted(t)[1]) /\ IsResponseOf(op[t], Reacted(t)[2])
           \/ IsDataOf(op[t], Reacted(t)[2]) /\ IsResponseOf(op[t], Reacted(t)[1]))
       => LET h == Handle(op[t], <<Reacted(t)[2], Reacted(t)[1]>>, DeviceFields)
          IN /\ op'[t].ret = h.ret
             /\ storageInfoObjects' = h.sio
             /\ stGen' = h.gen
             /\ sessionOpen' = h.so]_vars

\* A data-in operation was given the Response first and the Data container
\* second, and returned success.
C6_Witness ==
  \E t \in Tasks :
    /\ op[t].name \in DataInOps
    /\ op[t].handled
    /\ op[t].got = <<CONTAINER_TYPE_RESPONSE, CONTAINER_TYPE_DATA>>
    /\ op[t].resp.tid = op[t].tid
    /\ op[t].ret = "true"

\* ---- C7 ----
\* C7: a data-in operation given two Response containers or two Data
\* containers returns failure and leaves the storage list and the object
\* lists as they were.
C7_DuplicateTypesFail ==
  [][\A t \in Tasks :
       (/\ Completed(t)
        /\ op[t].name \in DataInOps
        /\ Len(Reacted(t)) = 2
        /\ Reacted(t)[1].type = Reacted(t)[2].type
        /\ Reacted(t)[1].type \in {CONTAINER_TYPE_DATA, CONTAINER_TYPE_RESPONSE})
       => (op'[t].ret = "false" /\ storageInfoObjects' = storageInfoObjects)]_vars

\* ---- C8 ----
\* C8: openSession returns true and leaves sessionOpen true exactly when the
\* Response code is OK or SESSION_ALREADY_OPEN; otherwise it returns false
\* and leaves sessionOpen false.
C8_OpenSessionResult ==
  \A t \in Tasks :
    (op[t].name = "openSession" /\ op[t].handled)
      => IF op[t].resp.code \in {MTP_OK, SESSION_ALREADY_OPEN}
         THEN op[t].ret = "true" /\ sessionOpen
         ELSE op[t].ret = "false" /\ ~sessionOpen

\* openSession was answered SESSION_ALREADY_OPEN and returned true.
C8_Witness ==
  \E t \in Tasks :
    /\ op[t].name = "openSession"
    /\ op[t].handled
    /\ op[t].resp.code = SESSION_ALREADY_OPEN
    /\ op[t].ret = "true"
    /\ sessionOpen

\* ---- C9 ----
\* C9: no Command other than OpenSession is written while sessionOpen is
\* false.
C9_CommandsNeedOpenSession ==
  [][(WroteCommand /\ Written.code # MTP_OPEN_SESSION) => sessionOpen]_vars

\* ---- C10 ----
\* C10: when the Response of an operation carries a code other than OK (for
\* openSession: other than OK and SESSION_ALREADY_OPEN), the promise of the
\* operation has settled with failure once the reaction has run.
C10_ErrorResponseFails ==
  \A t \in Tasks :
    (/\ op[t].handled
     /\ op[t].resp.type = CONTAINER_TYPE_RESPONSE
     /\ op[t].resp.code # MTP_OK
     /\ ~(op[t].name = "openSession" /\ op[t].resp.code = SESSION_ALREADY_OPEN))
      => op[t].ret = "false"

\* ---- C11 ----
\* C11: once a bulk transfer of an operation has been rejected, the
\* operation has settled with failure or was rejected to its caller, and
\* sessionOpen is false.
C11_TransferFailureClosesSession ==
  \A t \in Tasks :
    op[t].lost => (op[t].ret \in {"false", "error"} /\ ~sessionOpen)

\* ---- C12 ----
\* The event loop runs a task whenever there is one.
LiveSpec == Spec /\ WF_vars(Next)

\* C12: every operation that has been called settles or is rejected, whatever
\* the device sends or fails to send.
C12_OperationsSettle ==
  \A t \in Tasks :
    (op[t].name # "none" /\ op[t].ret = "pending") ~> (op[t].ret # "pending")

\* ---- C13 ----
\* C13: when getStorageIDS returns true on the Data container of its
\* transaction, the storage list has as many entries as the count field of
\* that container says, their storage ids are the ids of the payload in
\* payload order, and every entry has an empty object list.
C13_StorageListMatchesPayload ==
  [][\A t \in Tasks :
       (Completed(t) /\ op[t].name = "getStorageIDS" /\ op'[t].ret = "true")
       => \A n \in 1..Len(Reacted(t)) :
            IsDataOf(op[t], Reacted(t)[n])
            => LET words == Reacted(t)[n].words
               IN /\ Len(storageInfoObjects') = words[1]
                  /\ \A i \in 1..words[1] :
                       /\ storageInfoObjects'[i].storageID = words[i + 1]
                       /\ storageInfoObjects'[i].objectInfoObjects = <<>>]_vars

\* getStorageIDS has returned true on a recorder with two storages, and the
\* list has the two ids in the device's order.
C13_Witness ==
  \E t \in Tasks :
    /\ op[t].name = "getStorageIDS"
    /\ op[t].handled
    /\ op[t].ret = "true"
    /\ op[t].got = <<CONTAINER_TYPE_DATA, CONTAINER_TYPE_RESPONSE>>
    /\ devStorages = TwoStorageIDs
    /\ [i \in 1..Len(storageInfoObjects) |-> storageInfoObjects[i].storageID] = TwoStorageIDs

\* ---- C14 ----
\* No handler is running.
Quiet == \A t \in Tasks : app[t].pc \in {"idle", "done", "failed"}

\* The handles in the object list of a storage record.
HandlesListed(storage) ==
  [i \in 1..Len(storage.objectInfoObjects) |-> storage.objectInfoObjects[i].fileID]

\* C14: when no handler is running (so no operation is in progress), on a
\* device with more than one storage that has answered every transaction as
\* it should and with handlers started one after another, the object list of
\* every storage record holds the handles of the last successful
\* GetObjectHandles for its storage id, in order.
C14_ObjectListsMirrorDevice ==
  (Quiet /\ faults = 0 /\ ~overlapped /\ Len(devStorages) > 1)
    => \A i \in 1..Len(storageInfoObjects) :
         storageInfoObjects[i].storageID \in DOMAIN lastHandles
           => HandlesListed(storageInfoObjects[i])
                = lastHandles[storageInfoObjects[i].storageID]

\* ---- C15 ----
\* Handle h is in the object list of some storage record of the list sio.
Listed(sio, h) ==
  \E i \in 1..Len(sio) :
    \E j \in 1..Len(sio[i].objectInfoObjects) : sio[i].objectInfoObjects[j].fileID = h

\* C15: on a device that has answered every transaction as it should, when
\* deleteFile has returned true for a handle on the OK Response of its
\* transaction and its caller goes on, the handle is in no object list of
\* the device.
C15_DeletedHandleRemoved ==
  [][\A t \in Tasks :
       (/\ faults = 0
        /\ app[t].pc = "deleteFile" /\ app'[t].pc # "deleteFile"
        /\ op[t].name = "deleteFile" /\ op[t].ret = "true"
        /\ op[t].resp = [type |-> CONTAINER_TYPE_RESPONSE, code |-> MTP_OK,
                         tid |-> op[t].tid])
       => ~Listed(storageInfoObjects', op[t].fid)]_vars

\* ---- C16 ----
RECURSIVE BlobBytes(_)
\* The bytes in a sequence of chunks.
BlobBytes(blobs) ==
  IF blobs = <<>> THEN 0 ELSE Head(blobs).len + BlobBytes(Tail(blobs))

\* The bytes a download has taken for object bytes so far.
Accumulated(o) == o.bufLen + BlobBytes(o.blobs)

\* C16: while a download has a read of its data loop posted, the payload
\* accumulated is less than the length the first Data packet declared, and
\* no packet of fewer than 512 bytes has been received in this Data phase.
C16_ReadingStopsAtEndOfData ==
  \A t \in Tasks :
    (IsDownload(op[t].name) /\ op[t].dl = "loop")
      => (Accumulated(op[t]) < op[t].fileLength /\ ~op[t].short)

\* ---- C17 ----
\* C17: when downloadFile returns success, the array it returns has the
\* length the first Data packet declared less the 12 bytes of the header,
\* and holds no byte of a packet that is not a data packet of the object.
C17_DownloadReturnsTheObject ==
  \A t \in Tasks :
    (op[t].name = "downloadFile" /\ op[t].ret = "true")
      => (op[t].bufLen = op[t].fileLength /\ op[t].alien = 0)

\* ---- C18 ----
\* C18: when a download returns success, the last packet it read is the
\* Response container of its transaction and carries the code OK.
C18_DownloadChecksResponse ==
  \A t \in Tasks :
    (IsDownload(op[t].name) /\ op[t].ret = "true")
      => op[t].resp = [type |-> CONTAINER_TYPE_RESPONSE, code |-> MTP_OK,
                       tid |-> op[t].tid]

\* ---- downloadAudioFile around the chunk window ----
\* The audio download of a recorder that holds config.txt (40 bytes),
\* command.txt and a data.dat of len bytes, on a page that has opened the
\* device and then had the audio button pressed.  The Command is written,
\* the device has sent the Data phase and the Response; the download has
\* read the first packet and done packets of its loop (-1: not yet the
\* first packet).  Of the Data phase the packets not yet read are shown.
PacketsFor(len) == CeilDiv(len - Min(len, FIRST_DATA_PAYLOAD), MTP_PACKET_MAX_SIZE)

DownloadAt(len, done) ==
  LET o == [NewOp(Call("downloadAudioFile", NoRef, 0, 0, 3, 0, FALSE), 7, 14)
              EXCEPT !.send = "sent"]
      added == done \div BLOB_WINDOW
  IN IF done < 0 THEN o
     ELSE [o EXCEPT !.dl = "loop", !.fileLength = len,
                    !.bufLen = IF added = 0
                               THEN FIRST_DATA_PAYLOAD + MTP_PACKET_MAX_SIZE * done
                               ELSE MTP_PACKET_MAX_SIZE * (done % BLOB_WINDOW),
                    !.left = PacketsFor(len) - done, !.blobCount = done,
                    !.blobs = [k \in 1..added |->
                                 [len |-> IF k = 1
                                          THEN FIRST_DATA_PAYLOAD
                                                 + MTP_PACKET_MAX_SIZE * BLOB_WINDOW
                                          ELSE MTP_PACKET_MAX_SIZE * BLOB_WINDOW,
                                  blobNumber |-> k * BLOB_WINDOW]]]

\* The device record at that point of its first download.
RecordAt(len, done) ==
  LET o == DownloadAt(len, done)
      added == Len(o.blobs)
  IN [audioCopyBytes |-> BlobBytes(o.blobs),
      audioCopyTotalBytes |-> o.fileLength,
      audioCopyProgress |->
        IF added = 0 THEN 0
        ELSE Tenths(added * BLOB_WINDOW - 1, PacketsFor(len))]

ChunkAt(len, done) ==
  LET phase == DataPhase(GET_OBJECT, 14, len)
      ref == Ref(1, 1, 0, 0, 2)
  IN /\ transactionID = 14
     /\ sessionOpen = TRUE
     /\ storageInfoObjects =
          << [storageID |-> 2, sinfo |-> 1000, ogen |-> 1,
              objectInfoObjects |->
                << [fileID |-> 1, fileName |-> TPG_CONFIG_FILE, filesize |-> 40],
                   [fileID |-> 2, fileName |-> TPG_COMMAND_FILE, filesize |-> 30],
                   [fileID |-> 3, fileName |-> TPG_AUDIO_FILE, filesize |-> len] >>] >>
     /\ stGen = 2
     /\ SerialNumber = DeviceSerial
     /\ MTPDevices = <<DeviceSerial>>
     /\ TpgDevices = <<DeviceSerial>>
     /\ storeQ = <<>>
     /\ app = [t \in Tasks |->
                 CASE t = "open" ->
                        [IdleApp EXCEPT !.pc = "done", !.s1 = "true", !.s2 = "true",
                                        !.arr = <<2>>, !.i = 2, !.sref = ref, !.six = 1]
                   [] t = "audio" ->
                        [IdleApp EXCEPT !.pc = "downloadAudioFile", !.s1 = "true",
                                        !.s2 = "true", !.sref = [ref EXCEPT !.g = 2],
                                        !.six = 1]
                   [] OTHER -> IdleApp]
     /\ op = [t \in Tasks |->
                CASE t = "open" -> [IdleOp EXCEPT !.no = 8]
                  [] t = "audio" -> DownloadAt(len, done)
                  [] OTHER -> IdleOp]
     /\ timers = <<>>
     /\ reads = <<[t |-> "audio", no |-> 7]>>
     /\ usbOut = <<>>
     /\ usbIn = SubSeq(phase, done + 2, Len(phase)) \o <<Response(MTP_OK, 14, <<>>)>>
     /\ lastTid = 14
     /\ lastResp = 13
     /\ overlapped = FALSE
     /\ devFiles = <<ConfigFile(40), CommandFile, AudioFile(len)>>
     /\ devStorages = DeviceStorageIDs
     /\ link = "up"
     /\ claimed = TRUE
     /\ endpoints = getEndpoints(MTPInterface)
     /\ lastHandles = [id \in {2} |-> <<1, 2, 3>>]
     /\ devRecv = NoReceive
     /\ audioCopy = RecordAt(len, done)
     /\ commandText \in CommandTextLengths
     /\ faults = 0
     /\ clicks = 1
     /\ SideInit

\* The lengths of data.dat: short ones, read from the first packet on, and
\* ones whose packet count is next to a multiple of the chunk window, read
\* from a few packets before their end on.
ShortLengths == {0, 200, 500, 700, 1012, 1100}
WindowCounts ==
  {k * BLOB_WINDOW + d : k \in 1..2, d \in {-1, 0, 1}}
LastPacketSizes == {1, 200, 512}

ChunkInit ==
  \/ \E len \in ShortLengths : ChunkAt(len, -1)
  \/ \E n \in WindowCounts, last \in LastPacketSizes, back \in 1..4 :
       ChunkAt(FIRST_DATA_PAYLOAD + MTP_PACKET_MAX_SIZE * (n - 1) + last, n - back)

ChunkNext == Deliver \/ Resume("audio")

ChunkSpec == ChunkInit /\ [][ChunkNext]_vars

\* ---- C19 ----
\* C19: the chunk numbers of the chunks downloadAudioFile has added are
\* increasing: each chunk's number is greater than the number of the chunk
\* added before it.
C19_ChunkNumbersIncrease ==
  \A t \in Tasks :
    \A i \in 1..Len(op[t].blobs) :
      i > 1 => op[t].blobs[i].blobNumber > op[t].blobs[i - 1].blobNumber

\* ---- C20 ----
\* C20: the chunks downloadAudioFile has added hold bytes of the Data phase
\* only, and when the download has returned true their lengths add up to
\* the declared length of the object.
C20_ChunksHoldTheObject ==
  \A t \in Tasks :
    op[t].name = "downloadAudioFile" =>
      /\ op[t].alien = 0
      /\ op[t].ret = "true" => BlobBytes(op[t].blobs) = op[t].fileLength

\* ---- C21 ----
\* The most objectBuffer may hold: the payload of the first packet and one
\* chunk window of packets.
BufferLimit == FIRST_DATA_PAYLOAD + BLOB_WINDOW * MTP_PACKET_MAX_SIZE

\* C21: the objectBuffer of downloadAudioFile, between packets and at the
\* moment it is made a chunk, holds no more than the first packet's payload
\* plus one chunk window of 512-byte packets.
C21_BufferWithinOneWindow ==
  \A t \in Tasks :
    op[t].name = "downloadAudioFile" =>
      /\ op[t].bufLen <= BufferLimit
      /\ \A i \in 1..Len(op[t].blobs) : op[t].blobs[i].len <= BufferLimit

\* A download of more than one window has made its first chunk of a buffer
\* that was full to the limit, and has gone on to return.
C21_Witness ==
  /\ op["audio"].name = "downloadAudioFile"
  /\ op["audio"].ret = "true"
  /\ op["audio"].fileLength > BufferLimit
  /\ op["audio"].blobs[1].len = BufferLimit

\* ---- C22 ----
\* C22: when downloadAudioFile has returned success, on a recorder that
\* answered every transaction as expected and with one handler running at a
\* time, the device record shows a progress of 100 percent and as many
\* bytes copied as the total the first Data packet declared.
C22_RecordShowsCompletion ==
  \A t \in Tasks :
    (/\ op[t].name = "downloadAudioFile"
     /\ op[t].ret = "true"
     /\ faults = 0
     /\ ~overlapped)
      => /\ audioCopy.audioCopyProgress = 1000
         /\ audioCopy.audioCopyBytes = audioCopy.audioCopyTotalBytes

\* ---- C23 ----
\* The bulk-OUT transfer e is a write of the Data phase of uploadFile: the
\* one with the Data header, or one of the slices that follow it.
UploadDataWrite(e) ==
  \/ e.type = CONTAINER_TYPE_DATA /\ e.code = SEND_OBJECT
  \/ e.type = 0

\* C23: every write of uploadFile's Data phase is at most 512 bytes long;
\* the first carries the 12-byte header and at most 500 bytes of the file
\* (observed on runs with one handler at a time and a recorder that answers
\* as expected).
C23_UploadWritesFitAPacket ==
  \A n \in 1..Len(usbOut) :
    (faults = 0 /\ ~overlapped /\ UploadDataWrite(usbOut[n]))
      => /\ usbOut[n].size <= MTP_PACKET_MAX_SIZE
         /\ usbOut[n].type = CONTAINER_TYPE_DATA
              => usbOut[n].size <= MTP_CONTAINER_ARRAY_LEN + FIRST_DATA_PAYLOAD

\* ---- C24 ----
\* The total length of the Data phase operation o sends (0: it sends none).
DataPhaseSent(o) ==
  CASE o.name = "uploadFileInfo" -> MTP_CONTAINER_ARRAY_LEN + ObjectInfoLength
    [] o.name = "uploadFile" -> MTP_CONTAINER_ARRAY_LEN + o.flen
    [] OTHER -> 0

\* C24: when the last sendPacket of an operation whose Data phase is a
\* multiple of 512 bytes long returns, the packet it wrote was a zero-length
\* one (observed on runs with one handler at a time and a recorder that
\* answers as expected).
C24_ZeroLengthPacketEndsDataPhase ==
  [][\A t \in Tasks :
       (/\ faults = 0 /\ ~overlapped
        /\ DataPhaseSent(op[t]) > 0
        /\ DataPhaseSent(op[t]) % MTP_PACKET_MAX_SIZE = 0
        /\ op[t].send = "post"
        /\ op'[t].name = op[t].name
        /\ op'[t].send = "sent")
         => CurrentWrite(t, op[t]).size = 0]_vars

\* ---- C25 ----
\* C25: when uploadFile has written all it writes, it has written a Data
\* header after its Command and its slices have reached the end of the
\* file; a Data header of SendObject on the wire declares 12 bytes plus the
\* length of the file (observed on runs with one handler at a time and a
\* recorder that answers as expected).
C25_UploadSendsHeaderAndFile ==
  /\ \A t \in Tasks :
       (/\ faults = 0 /\ ~overlapped
        /\ op[t].name = "uploadFile"
        /\ op[t].send = "sent"
        /\ ~op[t].lost)
         => /\ op[t].wr >= 1
            /\ SliceEnd(op[t].off, op[t].flen) = op[t].flen
  /\ \A n \in 1..Len(usbOut) :
       (usbOut[n].type = CONTAINER_TYPE_DATA /\ usbOut[n].code = SEND_OBJECT)
         => usbOut[n].length = MTP_CONTAINER_ARRAY_LEN + commandText

\* ---- C26 ----
\* C26: when the recorder takes a SendObject Command, the Command it took
\* before was a SendObjectInfo that it answered with OK.
C26_SendObjectFollowsObjectInfo ==
  [][(/\ link = "up" /\ link' = "up"
      /\ usbOut # <<>>
      /\ usbOut' = Tail(usbOut)
      /\ Head(usbOut).type = MTP_PACKET_TYPE_COMMAND
      /\ Head(usbOut).code = SEND_OBJECT)
       => devRecv.info # 0]_vars

\* ---- C27 ----
\* C27: once uploadSettingsFile has found command.txt and called deleteFile,
\* with no packet of an earlier transaction left unread and no read posted
\* but its own, it returns, unless
\* the recorder deviates from one Response for each transaction, is
\* unplugged, or another handler is started meanwhile.
C27_UploadSettingsFileReturns ==
  (/\ app["upload"].pc = "deleteFile" /\ op["upload"].send = "pre"
   /\ usbIn = <<>> /\ Len(reads) = 1)
    ~> (app["upload"].pc = "done" \/ faults > 0 \/ overlapped \/ link # "up")

\* ---- C28 ----
\* C28: when uploadFileInfo has returned success, with one handler at a time
\* on a recorder that answers as expected, the object id it returns is the
\* handle the recorder gave in the third parameter of its Response.
C28_NewHandleReturned ==
  \A t \in Tasks :
    (/\ faults = 0 /\ ~overlapped
     /\ op[t].name = "uploadFileInfo"
     /\ op[t].ret = "true"
     /\ devRecv.info # 0)
      => op[t].val = devRecv.info

\* ---- C29 ----
\* C29: when an operation of OpenDevice's connect sequence has returned
\* anything but success, the device is not published: its SerialNumber is
\* not set, it is not on MTPDevices, no addDevice is dispatched for it.
C29_PublishedOnlyAfterFullSuccess ==
  app["open"].stepFailed
    => (SerialNumber = "" /\ MTPDevices = <<>> /\ TpgDevices = <<>> /\ storeQ = <<>>)

\* ---- C30 ----
\* C30: when OpenDevice has ended without putting the device on MTPDevices
\* and the device is still plugged in, the page does not hold the USB
\* device open with its interface claimed.
C30_FailedConnectReleasesDevice ==
  (/\ app["open"].pc \in {"done", "failed"}
   /\ SerialNumber = ""
   /\ link = "up")
    => ~claimed

\* ---- several recorders: the list of attached devices and the store ----
\* The MTP sequence of OpenDevice and the closeSession of disconnectDevice
\* are taken as single awaits here (Spec has their steps); MTPDevices holds
\* [device, SerialNumber] and the store and the database hold
\* [id, SerialNumber] (config.SerialNumber).
USBDevices == {"u1", "u2"}

\* SerialNumber of the config.txt of a recorder.
SerialOf(u) == IF u = "u1" THEN "SN1" ELSE "SN2"

\* Connect events, disconnect events and button presses of a run.
MaxHubEvents == 4

\* The 'Devices' collection as an earlier visit of the page left it: empty,
\* or with the record of a recorder that was attached when the page closed.
PersistedRecords == {<<>>, <<[id |-> 0, SerialNumber |-> "SN1"]>>}

\* The variables of the one recorder of Spec, which nothing here touches.
oneVars ==
  << transactionID, sessionOpen, storageInfoObjects, stGen, SerialNumber, app, op,
     timers, reads, usbOut, usbIn, lastTid, lastResp, overlapped, devFiles,
     devStorages, link, claimed, endpoints, lastHandles, devRecv, audioCopy,
     commandText,
     faults >>

OneIdle ==
  /\ transactionID = 0 /\ sessionOpen = FALSE /\ storageInfoObjects = <<>>
  /\ stGen = 0 /\ SerialNumber = ""
  /\ app = [t \in Tasks |-> IdleApp] /\ op = [t \in Tasks |-> IdleOp]
  /\ timers = <<>> /\ reads = <<>> /\ usbOut = <<>> /\ usbIn = <<>>
  /\ lastTid = -1 /\ lastResp = -1 /\ overlapped = FALSE
  /\ devFiles = <<>> /\ devStorages = <<>> /\ link = "up" /\ claimed = FALSE
  /\ endpoints = NoEndpoints
  /\ lastHandles = << >> /\ devRecv = NoReceive /\ audioCopy = NewRecord
  /\ commandText = 0 /\ faults = 0

\* seq.splice(n, 1) for an index n from findIndex (1-based here).
Splice(seq, n) == [k \in 1..(Len(seq) - (IF n <= Len(seq) THEN 1 ELSE 0)) |->
                     IF k < n THEN seq[k] ELSE seq[k + 1]]

\* this.deviceExist(currentSettings)
deviceExist(serial) ==
  \E n \in 1..Len(TpgDevices) : TpgDevices[n].SerialNumber = serial

\* MTPDevices.findIndex(element => element.device === usbDevice); 0 for -1
DeviceIndexOf(usbDevice) ==
  FirstIndex({n \in 1..Len(MTPDevices) : MTPDevices[n].device = usbDevice})

\* MTPDevices.findIndex(element => element.SerialNumber === serial); 0 for -1
SerialIndexOf(serial) ==
  FirstIndex({n \in 1..Len(MTPDevices) : MTPDevices[n].SerialNumber = serial})

\* state.TpgDevices.findIndex(element => element.config.SerialNumber === serial)
LenaIndexOf(serial) ==
  FirstIndex({n \in 1..Len(TpgDevices) : TpgDevices[n].SerialNumber = serial})

\* state.TpgDevices.filter(lenaDevice => lenaDevice.id !== id)
WithoutId(docs, id) == SelectSeq(docs, LAMBDA d : d.id # id)

OpenDeviceCall(u) == [handler |-> "OpenDevice", device |-> u, deviceIndex |-> 0, id |-> 0]

\* App.vue dispatches getDevices, WebHub's created() calls connectDevices,
\* which starts OpenDevice for every device the host lists.
HubInit ==
  /\ OneIdle
  /\ calc = <<>>
  /\ MTPDevices = <<>>
  /\ TpgDevices = <<>>
  /\ db \in PersistedRecords
  /\ storeQ = <<[action |-> "getDevices", lenaIndex |-> 0, id |-> 0, SerialNumber |-> ""]>>
  /\ plugged \in SUBSET USBDevices
  /\ running \in {<<>>, <<OpenDeviceCall("u1")>>, <<OpenDeviceCall("u2")>>,
                  <<OpenDeviceCall("u1"), OpenDeviceCall("u2")>>}
  /\ {running[n].device : n \in 1..Len(running)} = plugged
  /\ clock = 1
  /\ clicks = 0

\* A recorder is plugged in: the connect listener calls OpenDevice.
Plugged(u) ==
  /\ u \notin plugged
  /\ clicks < MaxHubEvents
  /\ clicks' = clicks + 1
  /\ plugged' = plugged \cup {u}
  /\ running' = Append(running, OpenDeviceCall(u))
  /\ UNCHANGED << oneVars, calc, MTPDevices, TpgDevices, storeQ, db, clock >>

\* The user presses Connect and picks an attached recorder in the host's
\* chooser: getNewDevice calls OpenDevice.
getNewDevice(u) ==
  /\ u \in plugged
  /\ clicks < MaxHubEvents
  /\ clicks' = clicks + 1
  /\ running' = Append(running, OpenDeviceCall(u))
  /\ UNCHANGED << oneVars, calc, MTPDevices, TpgDevices, storeQ, db, clock, plugged >>

\* OpenDevice after downloadSettingsFile has returned: the device is pushed
\* on MTPDevices and, if the store has no record with its serial number,
\* addDevice is dispatched, which stamps the record and starts the database
\* add.  OpenDevice sleeps 50 ms four times and runs its transactions
\* before it gets here: the database read of getDevices, dispatched when the
\* page started, is taken to have resolved by then.
Published(n) ==
  /\ running[n].handler = "OpenDevice"
  /\ running[n].device \in plugged
  /\ \A q \in 1..Len(storeQ) : storeQ[q].action # "getDevices"
  /\ LET u == running[n].device
         serial == SerialOf(u)
     IN /\ MTPDevices' = Append(MTPDevices, [device |-> u, SerialNumber |-> serial])
        /\ IF deviceExist(serial)
           THEN UNCHANGED << storeQ, clock >>
           ELSE /\ storeQ' = Append(storeQ, [action |-> "addDevice", lenaIndex |-> 0,
                                             id |-> clock, SerialNumber |-> serial])
                /\ clock' = clock + 1
  /\ running' = Splice(running, n)
  /\ UNCHANGED << oneVars, calc, TpgDevices, db, plugged, clicks >>

\* OpenDevice ends without publishing: openSession or getStorageIDS did
\* not succeed, or a call threw.
NotPublished(n) ==
  /\ running[n].handler = "OpenDevice"
  /\ running' = Splice(running, n)
  /\ UNCHANGED << oneVars, calc, MTPDevices, TpgDevices, storeQ, db, clock, plugged, clicks >>

\* A recorder is unplugged: disconnect(usbDevice), with the synchronous
\* part of deleteDeviceBySerialNumber.  A device that is not on the list,
\* or has no record, makes the handler throw into its own catch.
disconnect(u) ==
  /\ u \in plugged
  /\ plugged' = plugged \ {u}
  /\ LET deviceIndex == DeviceIndexOf(u)
         serialNumber == MTPDevices[deviceIndex].SerialNumber
         lenaIndex == LenaIndexOf(serialNumber)
     IN IF deviceIndex = 0 THEN UNCHANGED << MTPDevices, storeQ >>
        ELSE /\ MTPDevices' = Splice(MTPDevices, deviceIndex)
             /\ storeQ' = IF lenaIndex = 0 THEN storeQ
                          ELSE Append(storeQ, [action |-> "deleteDeviceBySerialNumber",
                                               lenaIndex |-> lenaIndex,
                                               id |-> TpgDevices[lenaIndex].id,
                                               SerialNumber |-> serialNumber])
  /\ UNCHANGED << oneVars, calc, TpgDevices, db, clock, running, clicks >>

\* The user presses Eject on the card of a store record: disconnectDevice
\* up to closeSession (it throws into its catch when no attached device has
\* the record's serial number).
disconnectDevice(r) ==
  /\ r \in 1..Len(TpgDevices)
  /\ clicks < MaxHubEvents
  /\ clicks' = clicks + 1
  /\ LET deviceIndex == SerialIndexOf(TpgDevices[r].SerialNumber)
     IN running' = IF deviceIndex = 0 THEN running
                   ELSE Append(running, [handler |-> "disconnectDevice",
                                         device |-> MTPDevices[deviceIndex].device,
                                         deviceIndex |-> deviceIndex,
                                         id |-> TpgDevices[r].id])
  /\ UNCHANGED << oneVars, calc, MTPDevices, TpgDevices, storeQ, db, clock, plugged >>

\* closeSession has returned (true or false): the entry at deviceIndex is
\* spliced off MTPDevices and deleteDevice is dispatched.
Ejected(n) ==
  /\ running[n].handler = "disconnectDevice"
  /\ running[n].device \in plugged
  /\ MTPDevices' = Splice(MTPDevices, running[n].deviceIndex)
  /\ storeQ' = Append(storeQ, [action |-> "deleteDevice", lenaIndex |-> 0,
                               id |-> running[n].id, SerialNumber |-> ""])
  /\ running' = Splice(running, n)
  /\ UNCHANGED << oneVars, calc, TpgDevices, db, clock, plugged, clicks >>

\* closeSession threw (the recorder is gone): disconnectDevice catches.
EjectFailed(n) ==
  /\ running[n].handler = "disconnectDevice"
  /\ running[n].device \notin plugged
  /\ running' = Splice(running, n)
  /\ UNCHANGED << oneVars, calc, MTPDevices, TpgDevices, storeQ, db, clock, plugged, clicks >>

\* The database promise of the oldest pending store action resolves and
\* its mutation is committed.
HubCommit ==
  /\ storeQ # <<>>
  /\ storeQ' = Tail(storeQ)
  /\ LET a == Head(storeQ)
         doc == [id |-> a.id, SerialNumber |-> a.SerialNumber]
     IN CASE a.action = "getDevices" ->
               /\ TpgDevices' = db
               /\ db' = db
          [] a.action = "addDevice" ->
               /\ db' = Append(db, doc)
               /\ TpgDevices' = Append(TpgDevices, doc)
          [] a.action = "deleteDevice" ->
               /\ db' = WithoutId(db, a.id)
               /\ TpgDevices' = WithoutId(TpgDevices, a.id)
          [] OTHER ->
               /\ db' = WithoutId(db, a.id)
               /\ TpgDevices' = IF a.lenaIndex <= Len(TpgDevices)
                                THEN WithoutId(TpgDevices, TpgDevices[a.lenaIndex].id)
                                ELSE TpgDevices
  /\ UNCHANGED << oneVars, calc, MTPDevices, clock, plugged, running, clicks >>

HubNext ==
  \/ \E u \in USBDevices : Plugged(u)
  \/ \E u \in USBDevices : getNewDevice(u)
  \/ \E n \in 1..Len(running) : Published(n)
  \/ \E n \in 1..Len(running) : NotPublished(n)
  \/ \E u \in USBDevices : disconnect(u)
  \/ \E r \in 1..Len(TpgDevices) : disconnectDevice(r)
  \/ \E n \in 1..Len(running) : Ejected(n)
  \/ \E n \in 1..Len(running) : EjectFailed(n)
  \/ HubCommit

HubSpec == HubInit /\ [][HubNext]_vars

\* C31: the store never holds two device records with the same
\* SerialNumber, whatever the order of the page's start-up enumeration, the
\* connect events and the presses of Connect.
C31_OneRecordPerSerialNumber ==
  \A i, j \in 1..Len(TpgDevices) :
    TpgDevices[i].SerialNumber = TpgDevices[j].SerialNumber => i = j

\* C37: whenever no connect, eject or disconnect handler is in progress
\* (and no store action is pending), every attached device has exactly one
\* store record with its SerialNumber and every store record has exactly one
\* attached device with that SerialNumber.
C37_ListsDescribeTheSameDevices ==
  (running = <<>> /\ storeQ = <<>>) =>
    /\ \A i \in 1..Len(MTPDevices) :
         Cardinality({j \in 1..Len(TpgDevices) :
                        TpgDevices[j].SerialNumber = MTPDevices[i].SerialNumber}) = 1
    /\ \A j \in 1..Len(TpgDevices) :
         Cardinality({i \in 1..Len(MTPDevices) :
                        MTPDevices[i].SerialNumber = TpgDevices[j].SerialNumber}) = 1

\* C38: when the database delete of a deleteDeviceBySerialNumber resolves,
\* the record it looked up for the disconnected device, and no other
\* record, leaves the store, whatever store actions came in between.
C38_DisconnectRemovesItsRecord ==
  [][(/\ storeQ # <<>>
      /\ Head(storeQ).action = "deleteDeviceBySerialNumber"
      /\ storeQ' = Tail(storeQ))
     => TpgDevices' = WithoutId(TpgDevices, Head(storeQ).id)]_vars

\* C33: when the first interface of the recorder has no bulk-IN or no
\* bulk-OUT endpoint, no MTP Command, not even OpenSession, is written to
\* the recorder.
C33_NoCommandWithoutEndpoints ==
  [][(/\ app["open"].pc # "idle"
      /\ (endpoints.endpointIn = 0 \/ endpoints.endpointOut = 0))
     => ~WroteCommand]_vars

\* disconnectDevice takes the device, which is still plugged in, off
\* MTPDevices and dispatches deleteDevice.
SoftEjected ==
  /\ link = "up"
  /\ app["eject"].pc = "closeSession"
  /\ app'["eject"].pc = "done"
  /\ Len(MTPDevices') < Len(MTPDevices)

\* C32: on a soft-eject the CloseSession Command is written only while the
\* device's session is open; the device leaves the attached list and the
\* store only after closeSession has read the reply to its Command, and
\* its session is closed at that moment.
C32_EjectAfterSessionClosed ==
  [][/\ (WroteCommand /\ Written.code = CLOSE_SESSION) => sessionOpen
     /\ SoftEjected =>
          /\ op["eject"].handled
          /\ ~sessionOpen]_vars

ListingOps == {"getStorageIDS", "getFileObjects"}

\* C39: a getStorageIDS or getFileObjects that returns false because the
\* Response code is not OK leaves the storage list and every object list as
\* they were: while such an operation is the only one in progress, the lists
\* change only in the step in which it returns true.
C39_FailedListingChangesNothing ==
  [][\A t \in Tasks :
       (/\ op[t].name \in ListingOps
        /\ op[t].ret \in {"pending", "false"}
        /\ op'[t].ret # "true"
        /\ ~overlapped)
       => UNCHANGED << storageInfoObjects, stGen >>]_vars

\* getStorageIDS has returned false on a Response that is not OK while the
\* device had a storage list with objects in it.
C39_Witness ==
  \E t \in Tasks :
    /\ op[t].name = "getStorageIDS"
    /\ op[t].handled /\ op[t].ret = "false"
    /\ op[t].resp.type = CONTAINER_TYPE_RESPONSE /\ op[t].resp.code # MTP_OK
    /\ ~overlapped
    /\ storageInfoObjects # <<>>
    /\ storageInfoObjects[1].objectInfoObjects # <<>>

\* The operation number no of handler t has returned or thrown.
Settled(t, no) ==
  \/ op[t].no > no
  \/ /\ op[t].no = no
     /\ \/ op[t].name = "none"
        \/ op[t].ret # "pending" /\ op[t].send = "sent"

\* C40: once a driver operation has returned or thrown, none of the
\* bulk-IN reads it posted is still outstanding on the attached recorder,
\* which has answered every Command as the protocol asks.
C40_NoReadOutlivesItsOperation ==
  (CanRead /\ faults = 0) => \A n \in 1..Len(reads) : ~Settled(reads[n].t, reads[n].no)

\* ---- the codecs: mtpPacket, ObjectInfoDataset, stringToObj ----
\* Byte arrays are sequences of 0..255, element i of the source at i + 1.
\* A number of the source is held as its two 16-bit halves,
\* hi * 65536 + lo with lo in 0..65535: up to 2^32 - 1 for the 32-bit values
\* the driver is given, negative hi for the negative results of its 32-bit
\* operators.
Word(hi, lo) == [hi |-> hi, lo |-> lo]

Num(v) == Word(v \div 65536, v % 65536)

\* The top half of ToInt32(x).
SignedHalf(h) == ((h + 32768) % 65536) - 32768

\* (x >> k) & 0xff for the shift counts of the source, multiples of 8: the
\* count is taken modulo 32 and the mask drops the sign.
ShiftedByte(x, k) ==
  CASE k % 32 = 0 -> x.lo % 256
    [] k % 32 = 8 -> x.lo \div 256
    [] k % 32 = 16 -> (x.hi % 65536) % 256
    [] OTHER -> (x.hi % 65536) \div 256

\* b0 | (b1 << 8) | (b2 << 16) | (b3 << 24): a signed 32-bit result.
OrBytes(b0, b1, b2, b3) == Word(SignedHalf(b2 + 256 * b3), b0 + 256 * b1)

\* What a Uint8Array keeps of the integer v.
LowByte(v) == v % 256

Zeros(n) == [i \in 1..n |-> 0]

\* array[i], and 0 where undefined enters an integer operator
ByteAt(array, i) == IF i >= 0 /\ i < Len(array) THEN array[i + 1] ELSE 0

\* new mtpPacket(parameterLength), with the arguments its setters get
mtpPacket(parameterLength, type, operation, transaction_id, params) ==
  [f |-> "mtpPacket", step |-> "constructed", parameterLength |-> parameterLength,
   parameterArrayLength |-> parameterLength * 4,
   containerArrayLength |-> parameterLength * 4 + MTP_CONTAINER_ARRAY_LEN,
   container_array |-> Zeros(parameterLength * 4 + MTP_CONTAINER_ARRAY_LEN),
   parameters_array |-> Zeros(parameterLength * 4),
   type |-> type, operation |-> operation, transaction_id |-> transaction_id,
   params |-> params]

\* setParams(param1, ..., param5): a write past the end of parameters_array
\* is dropped.
setParams(o) ==
  [o EXCEPT !.parameters_array =
     [i \in 1..Len(o.parameters_array) |->
        ShiftedByte(o.params[((i - 1) \div 4) + 1], ((i - 1) % 4) * 8)]]

\* A variant that packs the transaction id in two bytes.
pack_ShortId(o) ==
  LET first == o.containerArrayLength - o.parameterArrayLength
  IN [o EXCEPT !.container_array =
        [i \in 1..Len(o.container_array) |->
           LET j == i - 1
           IN CASE j < 4 -> ShiftedByte(Num(o.containerArrayLength), j * 8)
                [] j = 4 -> LowByte(o.type)
                [] j = 5 -> ShiftedByte(Num(o.type), 8)
                [] j = 6 -> LowByte(o.operation)
                [] j = 7 -> ShiftedByte(Num(o.operation), 8)
                [] j >= 8 /\ j < 10 /\ j < first ->
                     ShiftedByte(o.transaction_id, (j - 8) * 8)
                [] j >= 10 /\ j < first -> 0
                [] OTHER -> ByteAt(o.parameters_array, j - first)]]

pack(o) ==
  LET first == o.containerArrayLength - o.parameterArrayLength
  IN [o EXCEPT !.container_array =
        [i \in 1..Len(o.container_array) |->
           LET j == i - 1
           IN CASE j < 4 -> ShiftedByte(Num(o.containerArrayLength), j * 8)
                [] j = 4 -> LowByte(o.type)
                [] j = 5 -> ShiftedByte(Num(o.type), 8)
                [] j = 6 -> LowByte(o.operation)
                [] j = 7 -> ShiftedByte(Num(o.operation), 8)
                [] j >= 8 /\ j < first ->
                     ShiftedByte(o.transaction_id, (j - 8) * 8)
                [] OTHER -> ByteAt(o.parameters_array, j - first)]]

\* The operation codes, transaction ids and parameter lists packed.
PackedOperations == {MTP_OPEN_SESSION, MTP_DELETE_OBJECT, 65535}
PackedIds ==
  {Num(0), Num(1), Num(256), Num(65536), Word(32767, 65535), Word(32768, 0),
   Word(65535, 65535)}
PackedParams ==
  {<<Num(1), Num(2), Num(3), Num(4), Num(5)>>,
   <<Word(65535, 65535), Word(32768, 0), Num(65536), Num(255), Num(256)>>,
   <<Word(32767, 65535), Num(0), Word(65535, 65535), Word(258, 772), Word(256, 0)>>}

PacketInit ==
  \E n \in 0..5, operation \in PackedOperations, id \in PackedIds, ps \in PackedParams :
    calc = mtpPacket(n, MTP_PACKET_TYPE_COMMAND, operation, id, ps)

CodecRest ==
  << transactionID, sessionOpen, storageInfoObjects, stGen, SerialNumber, MTPDevices,
     TpgDevices, storeQ, app, op, timers, reads, usbOut, usbIn, lastTid, lastResp,
     overlapped, devFiles, devStorages, link, claimed, endpoints, lastHandles, devRecv,
     audioCopy, commandText, faults, clicks, db, plugged, running, clock >>

CodecIdle ==
  /\ OneIdle /\ MTPDevices = <<>> /\ TpgDevices = <<>> /\ storeQ = <<>> /\ clicks = 0
  /\ db = <<>> /\ plugged = {} /\ running = <<>> /\ clock = 0

SetParams ==
  /\ calc.f = "mtpPacket" /\ calc.step = "constructed"
  /\ calc' = [setParams(calc) EXCEPT !.step = "set"]
  /\ UNCHANGED CodecRest

Pack ==
  /\ calc.f = "mtpPacket" /\ calc.step = "set"
  /\ calc' = [pack(calc) EXCEPT !.step = "packed"]
  /\ UNCHANGED CodecRest

\* The unsigned number that four bytes of array from i on hold,
\* little-endian, and the one that two bytes hold.
LittleEndian(array, i) ==
  Word(ByteAt(array, i + 2) + 256 * ByteAt(array, i + 3),
       ByteAt(array, i) + 256 * ByteAt(array, i + 1))

LittleEndian16(array, i) == ByteAt(array, i) + 256 * ByteAt(array, i + 1)

\* ---- ObjectInfoDataset ----
UNDEFINED_OBJECT_FORMAT == 12288

\* "20220315T093740.0" as the constructor holds it: the characters with a
\* zero byte between them.
DateArray ==
  <<50, 0, 48, 0, 50, 0, 50, 0, 48, 0, 51, 0, 49, 0, 53, 0, 84, 0, 48, 0, 57, 0, 51, 0,
    55, 0, 52, 0, 48, 0, 46, 0, 48>>

\* dateCreateLength and dateModLength
DateLength == <<0, 0, 0, 18>>

\* new ObjectInfoDataset(file_id), with the arguments of initContainer
ObjectInfoDataset(objectFormat, objectCompressedSize, filename, transaction_id) ==
  [f |-> "ObjectInfoDataset", step |-> "constructed",
   objectFormat |-> objectFormat, objectCompressedSize |-> objectCompressedSize,
   filename |-> filename, transaction_id |-> transaction_id,
   container_array |-> Zeros(OBJECT_INFO_PREFIX), filename_array |-> <<>>,
   packet |-> <<>>, ret |-> "pending", fileName |-> <<>>, filesize |-> Num(0)]

\* initContainer(objectFormat, objectCompressedSize, 0, 0, filename)
initContainer(o) ==
  LET n == Len(o.filename)
  IN [o EXCEPT
        !.filename_array =
           [i \in 1..(2 * n) |->
              LET j == i - 1
              IN IF j = 0 THEN LowByte(n + 1)
                 ELSE IF j % 2 = 0 THEN 0
                 ELSE LowByte(o.filename[(j - 1) \div 2 + 1])],
        !.container_array =
           [i \in 1..OBJECT_INFO_PREFIX |->
              LET j == i - 1
              IN CASE j \in 4..5 -> ShiftedByte(Num(o.objectFormat), (j - 8) * 8)
                   [] j \in 8..11 ->
                        ShiftedByte(o.objectCompressedSize,
                                    (j - MTP_CONTAINER_ARRAY_LEN) * 8)
                   [] j = 13 -> 48
                   [] OTHER -> 0]]

\* The Data container uploadFileInfo writes: the header packed by an
\* mtpPacket(0) whose containerArrayLength was set to the whole length,
\* then the parts of the dataset.
ObjectInfoData(o) ==
  LET body == o.container_array \o o.filename_array \o DateLength \o DateArray
              \o DateLength \o DateArray \o Zeros(KEYWORDS_LEN)
      header == pack([mtpPacket(0, CONTAINER_TYPE_DATA, SEND_OBJECT_INFO,
                                o.transaction_id, <<>>)
                        EXCEPT !.containerArrayLength =
                                  MTP_CONTAINER_ARRAY_LEN + Len(body)])
  IN header.container_array \o body

\* What getFileObjectInfo reads out of the Data packet of a GetObjectInfo:
\* one transfer of at most MTP_PACKET_MAX_SIZE bytes.  new Uint8Array of a
\* negative length throws, which the operation catches.
ParseObjectInfo(o, packet) ==
  LET objectInfoBuffer == SubSeq(packet, 1, Min(Len(packet), MTP_PACKET_MAX_SIZE))
      fileNameLength == ByteAt(objectInfoBuffer, FILE_NAME_START - 1) * 2
      last == Min(Len(objectInfoBuffer), FILE_NAME_START + fileNameLength)
      sliced_name_array == SubSeq(objectInfoBuffer, FILE_NAME_START + 1, last)
      length == IF Len(sliced_name_array) = 1 THEN 0
                ELSE (Len(sliced_name_array) \div 2) - 1
  IN IF length < 0 THEN [o EXCEPT !.ret = "false"]
     ELSE [o EXCEPT !.ret = "true",
                    !.fileName = [i \in 1..length |-> sliced_name_array[2 * (i - 1) + 1]],
                    !.filesize = OrBytes(ByteAt(objectInfoBuffer, 20),
                                         ByteAt(objectInfoBuffer, 21),
                                         ByteAt(objectInfoBuffer, 22),
                                         ByteAt(objectInfoBuffer, 23))]

\* File names as UTF-16 code units: "command.txt", "c", e with acute,
\* capital omega, two CJK characters, and 254 times "a".
FileNames ==
  {<<99, 111, 109, 109, 97, 110, 100, 46, 116, 120, 116>>, <<99>>, <<233>>, <<937>>,
   <<20013, 25991>>, [i \in 1..254 |-> 97]}

FileSizes ==
  {Num(0), Num(30), Num(65536), Word(32767, 65535), Word(32768, 0), Word(65535, 65535)}

ObjectInfoInit ==
  \E filename \in FileNames, size \in FileSizes, id \in {Num(7), Word(32768, 1)} :
    calc = ObjectInfoDataset(UNDEFINED_OBJECT_FORMAT, size, filename, id)

InitContainer ==
  /\ calc.f = "ObjectInfoDataset" /\ calc.step = "constructed"
  /\ calc' = [initContainer(calc) EXCEPT !.step = "initialised"]
  /\ UNCHANGED CodecRest

SendObjectInfoData ==
  /\ calc.f = "ObjectInfoDataset" /\ calc.step = "initialised"
  /\ calc' = [calc EXCEPT !.step = "encoded", !.packet = ObjectInfoData(calc)]
  /\ UNCHANGED CodecRest

GetObjectInfoParsed ==
  /\ calc.f = "ObjectInfoDataset" /\ calc.step = "encoded"
  /\ calc' = [ParseObjectInfo(calc, calc.packet) EXCEPT !.step = "decoded"]
  /\ UNCHANGED CodecRest

\* ---- stringToObj ----
\* A string is the sequence of its characters; CR and LF stand for the
\* carriage return and the line feed.
CR == "CR"
LF == "LF"

\* string.split(/\r\n|\r|\n/g)
RECURSIVE SplitLines(_)
SplitLines(string) ==
  LET breaks == {i \in 1..Len(string) : string[i] \in {CR, LF}}
      i == FirstIndex(breaks)
      skip == IF string[i] = CR /\ i < Len(string) /\ string[i + 1] = LF THEN 2 ELSE 1
  IN IF breaks = {} THEN <<string>>
     ELSE <<SubSeq(string, 1, i - 1)>> \o SplitLines(SubSeq(string, i + skip, Len(string)))

\* line.split("=")
RECURSIVE SplitEquals(_)
SplitEquals(line) ==
  LET signs == {i \in 1..Len(line) : line[i] = "="}
      i == FirstIndex(signs)
  IN IF signs = {} THEN <<line>>
     ELSE <<SubSeq(line, 1, i - 1)>> \o SplitEquals(SubSeq(line, i + 1, Len(line)))

\* The loop of stringToObj over stringArray, from obj on: kvp[1] is
\* undefined or empty for a line that adds nothing.
RECURSIVE AddLines(_, _)
AddLines(obj, stringArray) ==
  IF stringArray = <<>> THEN obj
  ELSE LET kvp == SplitEquals(Head(stringArray))
           next == IF Len(kvp) >= 2 /\ kvp[2] # <<>>
                   THEN [k \in DOMAIN obj \cup {kvp[1]} |->
                           IF k = kvp[1] THEN kvp[2] ELSE obj[k]]
                   ELSE obj
       IN AddLines(next, Tail(stringArray))

stringToObj(string) == AddLines(<< >>, SplitLines(string))

\* The keys and values of the maps rendered, and the lines put after them.
ConfigKeys == {<<"S", "N">>, <<"A">>}
ConfigValues == {<<"1">>, <<"4", "2">>, <<"a", " ", "b">>, <<"a", "=", "b">>}
OtherLines == {<<>>, <<"j", "u", "n", "k">>, <<"E", "=">>}
LineEnds == {<<CR, LF>>, <<CR>>, <<LF>>}

\* KEY=VALUE for each entry, then the other line, each followed by end.
RECURSIVE Rendered(_, _, _)
Rendered(entries, other, end) ==
  IF entries = <<>> THEN other \o end
  ELSE Head(entries)[1] \o <<"=">> \o Head(entries)[2] \o end
       \o Rendered(Tail(entries), other, end)

StringInit ==
  \E v1, v2 \in ConfigValues, count \in 1..2, other \in OtherLines, end \in LineEnds :
    LET entries == SubSeq(<< <<<<"S", "N">>, v1>>, <<<<"A">>, v2>> >>, 1, count)
    IN calc = [f |-> "stringToObj", step |-> "rendered", entries |-> entries,
               string |-> Rendered(entries, other, end), obj |-> << >>]

StringToObj ==
  /\ calc.f = "stringToObj" /\ calc.step = "rendered"
  /\ calc' = [calc EXCEPT !.step = "parsed", !.obj = stringToObj(calc.string)]
  /\ UNCHANGED CodecRest

CodecInit == CodecIdle /\ (PacketInit \/ ObjectInfoInit \/ StringInit)

CodecNext ==
  \/ SetParams
  \/ Pack
  \/ InitContainer
  \/ SendObjectInfoData
  \/ GetObjectInfoParsed
  \/ StringToObj

CodecSpec == CodecInit /\ [][CodecNext]_vars

\* C34: the Command container that setParams and pack produce for n
\* parameters (0 <= n <= 5) is 12 + 4n bytes long and holds, little-endian,
\* its length in bytes 0..3, type 1 in bytes 4..5, the operation code in
\* bytes 6..7, the transaction id in bytes 8..11 and then the n parameters
\* in order, four bytes each: reading the bytes gives back what was packed.
C34_CommandContainerLayout ==
  (calc.f = "mtpPacket" /\ calc.step = "packed") =>
    LET c == calc.container_array
        n == calc.parameterLength
    IN /\ Len(c) = 12 + 4 * n
       /\ LittleEndian(c, 0) = Num(12 + 4 * n)
       /\ LittleEndian16(c, 4) = MTP_PACKET_TYPE_COMMAND
       /\ LittleEndian16(c, 6) = calc.operation
       /\ LittleEndian(c, 8) = calc.transaction_id
       /\ \A k \in 1..n : LittleEndian(c, 12 + 4 * (k - 1)) = calc.params[k]

\* A container with five parameters was packed whose transaction id and
\* first parameter have their top bit set.
C34_Witness ==
  /\ calc.f = "mtpPacket" /\ calc.step = "packed"
  /\ calc.parameterLength = 5
  /\ calc.transaction_id = Word(65535, 65535)
  /\ calc.params[2] = Word(32768, 0)

\* C35: the ObjectInfo dataset encoded for SendObjectInfo, read by the
\* parsing of GetObjectInfo, gives back the file name and the size that
\* were encoded, for names of up to 254 UTF-16 code units of any value and
\* any 32-bit size.
C35_ObjectInfoRoundTrip ==
  (calc.f = "ObjectInfoDataset" /\ calc.step = "decoded") =>
    /\ calc.ret = "true"
    /\ calc.fileName = calc.filename
    /\ calc.filesize = calc.objectCompressedSize

\* C36: stringToObj of the text that renders a map, one KEY=VALUE line per
\* entry with the lines ended by CR LF, CR or LF, is that map, for keys
\* without '=' and values without CR or LF; a line without '=' or with
\* nothing after it adds no entry.
C36_ConfigRoundTrip ==
  (calc.f = "stringToObj" /\ calc.step = "parsed") =>
    /\ DOMAIN calc.obj = {calc.entries[n][1] : n \in 1..Len(calc.entries)}
    /\ \A n \in 1..Len(calc.entries) : calc.obj[calc.entries[n][1]] = calc.entries[n][2]

====
